---- MODULE Spec2Model ----
(***************************************************************************)
(* Sulphite Learning Assistant: the session store (database.py), the chat  *)
(* service and the command loop built on it (services.py, main.py), the    *)
(* state manager and chat manager (state_manager.py, chat_manager.py) and  *)
(* the classifier's reply parser (classification.py).                      *)
(***************************************************************************)
EXTENDS Integers, Sequences, FiniteSets, TLC

\* ------------------------------------------------------------------ bounds

\* Cap on the AUTOINCREMENT counter of the memory table in the application.
MaxTurns == 3

\* The same cap in long conversations: more turns than the window holds.
LongMaxTurns == 7

\* Cap on the memory counter in the store specification, where every call of
\* the Database API is an action.
DbMaxTurns == 3

\* Largest limit a caller of get_memory passes in the store specification.
MaxLimit == 2

\* Largest number of members of a JSON object in a classification reply.
MaxFields == 2

\* Session names a caller may use.
Names == {"default", "algebra"}

\* User messages and model responses.
Messages == {"q1", "q2"}

Responses == {"a1"}

\* Session names and identifiers a caller of the store may pass (existing or not).
DbNames == {"default", "algebra"}

\* Cap on the sessions counter in the store specification: one id per name.
DbMaxSessions == Cardinality(DbNames)

SessionIds == 1..DbMaxSessions

\* Limits a caller of get_memory may pass; a negative one included.
Limits == (0 - 1)..MaxLimit

\* ------------------------------------------------------------- the store

\* Python's None for an Optional[int] session id; "not session_id" is true of
\* None and of 0 alike, and AUTOINCREMENT ids start at 1.
None == 0

VARIABLES
    db,            \* Database: sessions and memory tables, their sqlite_sequence rows
    chat_service,  \* ChatService: session_id
    state,         \* StateManager: session_id, language_mode, permanent_memory, current_prompt
    chat_manager,  \* ChatManager: session_memory_texts, memory_index
    app,           \* SulphiteApp: running, and where run() is (pc)
    last,          \* the last operation: its name, arguments, return value or exception
    hist           \* history: every turn still stored, in the order add_message wrote it

vars == <<db, chat_service, state, chat_manager, app, last, hist>>

\* create_tables on a new file: both tables empty, no sqlite_sequence row yet.
create_tables ==
    [sessions |-> {}, sessions_seq |-> 0, memory |-> {}, memory_seq |-> 0,
     notes |-> <<>>]

Min(a, b) == IF a <= b THEN a ELSE b

\* SELECT id FROM sessions WHERE name = ?  (name is UNIQUE: at most one row)
get_session(d, name) ==
    IF \E r \in d.sessions : r.name = name
    THEN (CHOOSE r \in d.sessions : r.name = name).id
    ELSE None

\* create_session on a sessions table whose name column is not UNIQUE.
create_session_NoUnique(d, name, fail) ==
    IF fail THEN [db |-> d, exc |-> "Error", ret |-> None]
    ELSE LET id == d.sessions_seq + 1
         IN  [db |-> [d EXCEPT !.sessions = @ \cup {[id |-> id, name |-> name]},
                               !.sessions_seq = id],
              exc |-> "none", ret |-> id]

\* INSERT INTO sessions (name) VALUES (?): the UNIQUE constraint on name raises
\* IntegrityError and the transaction rolls back; otherwise lastrowid is returned.
\* fail: the storage engine raises sqlite3.Error.
create_session(d, name, fail) ==
    IF fail THEN [db |-> d, exc |-> "Error", ret |-> None]
    ELSE IF \E r \in d.sessions : r.name = name
    THEN [db |-> d, exc |-> "IntegrityError", ret |-> None]
    ELSE LET id == d.sessions_seq + 1
         IN  [db |-> [d EXCEPT !.sessions = @ \cup {[id |-> id, name |-> name]},
                               !.sessions_seq = id],
              exc |-> "none", ret |-> id]

\* INSERT INTO memory (session_id, user_input, model_response): foreign keys are
\* declared but the connection never enables them, so any session_id is stored.
add_message(d, session_id, user_input, model_response, fail) ==
    IF fail THEN [db |-> d, exc |-> "Error"]
    ELSE LET id == d.memory_seq + 1
         IN  [db |-> [d EXCEPT !.memory = @ \cup
                                   {[id |-> id, session_id |-> session_id,
                                     user_input |-> user_input,
                                     model_response |-> model_response]},
                               !.memory_seq = id],
              exc |-> "none"]

RECURSIVE OrderByIdDesc(_)
\* ORDER BY id DESC
OrderByIdDesc(rows) ==
    IF rows = {} THEN <<>>
    ELSE LET m == CHOOSE r \in rows : \A q \in rows : q.id <= r.id
         IN  <<m>> \o OrderByIdDesc(rows \ {m})

\* LIMIT ? + 1
Limit_OffByOne(rows, limit) ==
    IF limit < 0 THEN rows ELSE SubSeq(rows, 1, IF limit + 1 <= Len(rows) THEN limit + 1 ELSE Len(rows))

\* LIMIT ?: a negative limit is no limit in SQLite.
Limit(rows, limit) ==
    IF limit < 0 THEN rows ELSE SubSeq(rows, 1, Min(limit, Len(rows)))

\* fetchall() without the reversal.
Reverse_Missing(s) == s

\* fetchall()[::-1]
Reverse(s) == [i \in 1..Len(s) |-> s[Len(s) + 1 - i]]

\* get_memory without WHERE session_id = ?
get_memory_rows_AllSessions(d, session_id, limit) ==
    Reverse(Limit(OrderByIdDesc(d.memory), limit))

\* The rows get_memory reads, in the order it returns them.
get_memory_rows(d, session_id, limit) ==
    Reverse(Limit(OrderByIdDesc({r \in d.memory : r.session_id = session_id}), limit))

\* SELECT user_input, model_response FROM memory WHERE session_id = ?
\* ORDER BY id DESC LIMIT ?, reversed.
get_memory(d, session_id, limit) ==
    LET rows == get_memory_rows(d, session_id, limit)
    IN  [i \in 1..Len(rows) |-> <<rows[i].user_input, rows[i].model_response>>]

\* clear_memory that leaves the most recent turn of the session.
clear_memory_KeepsLast(d, session_id, fail) ==
    IF fail THEN [db |-> d, exc |-> "Error"]
    ELSE [db |-> [d EXCEPT !.memory =
                      {r \in @ : \/ r.session_id # session_id
                                 \/ \A q \in @ : q.session_id = session_id => q.id <= r.id}],
          exc |-> "none"]

\* clear_memory without its WHERE clause: the turns of every session go.
clear_memory_AllSessions(d, session_id, fail) ==
    IF fail THEN [db |-> d, exc |-> "Error"]
    ELSE [db |-> [d EXCEPT !.memory = {}], exc |-> "none"]

\* DELETE FROM memory WHERE session_id = ?
clear_memory(d, session_id, fail) ==
    IF fail THEN [db |-> d, exc |-> "Error"]
    ELSE [db |-> [d EXCEPT !.memory = {r \in @ : r.session_id # session_id}],
          exc |-> "none"]

\* delete_session committing each statement by itself: when the second one
\* fails the turns are gone and the record is kept.
delete_session_NoRollback(d, session_id, fail) ==
    IF fail
    THEN [db |-> [d EXCEPT !.memory = {r \in @ : r.session_id # session_id}],
          exc |-> "Error"]
    ELSE [db |-> [d EXCEPT !.memory = {r \in @ : r.session_id # session_id},
                           !.sessions = {r \in @ : r.id # session_id}],
          exc |-> "none"]

\* DELETE FROM memory WHERE session_id = ?; DELETE FROM sessions WHERE id = ?
\* in one transaction: a failure of either statement rolls both back.
delete_session(d, session_id, fail) ==
    IF fail THEN [db |-> d, exc |-> "Error"]
    ELSE [db |-> [d EXCEPT !.memory = {r \in @ : r.session_id # session_id},
                           !.sessions = {r \in @ : r.id # session_id}],
          exc |-> "none"]

\* The permanent-notes table holds a single row. get_permanent_memory returns
\* its note, or the empty text when there is no row yet.
get_permanent_memory(d) == IF d.notes = <<>> THEN "" ELSE d.notes[1]

\* update_permanent_memory: the row is overwritten wholesale; a failure of
\* the store is raised and leaves the row as it was.
update_permanent_memory(d, new_notes, fail) ==
    IF fail THEN [db |-> d, exc |-> "Error"]
    ELSE [db |-> [d EXCEPT !.notes = <<new_notes>>], exc |-> "none"]

\* ---------------------------------------------------------- the classifier

\* The one element of a set of one element.
Only(S) == CHOOSE r \in S : TRUE

\* A text (a Python str) is the sequence of its characters, each held as its
\* code point (ord). Ord gives the code point of the characters that can be
\* written here; BQ is the grave accent.
Ord ==
    LET From(first, chars) ==
            [c \in {chars[i] : i \in DOMAIN chars} |->
                first - 1 + CHOOSE i \in DOMAIN chars : chars[i] = c]
    IN  From(9, <<"\t", "\n">>) @@ From(12, <<"\f", "\r">>)
        @@ From(32,
             <<" ", "!", "\"", "#", "$", "%", "&", "'", "(", ")", "*", "+", ",",
               "-", ".", "/", "0", "1", "2", "3", "4", "5", "6", "7", "8", "9",
               ":", ";", "<", "=", ">", "?", "@", "A", "B", "C", "D", "E", "F",
               "G", "H", "I", "J", "K", "L", "M", "N", "O", "P", "Q", "R", "S",
               "T", "U", "V", "W", "X", "Y", "Z", "[", "\\", "]", "^", "_">>)
        @@ From(97,
             <<"a", "b", "c", "d", "e", "f", "g", "h", "i", "j", "k", "l", "m",
               "n", "o", "p", "q", "r", "s", "t", "u", "v", "w", "x", "y", "z",
               "{", "|", "}", "~">>)

BQ == 96

\* The text written with the characters s (one string for each character).
Code(s) == [i \in 1..Len(s) |-> Ord[s[i]]]

\* The characters of the words the program and the replies are written with.
Spelling ==
    ("" :> <<>>)
    @@ ("classification" :>
         <<"c", "l", "a", "s", "s", "i", "f", "i", "c", "a", "t", "i", "o",
           "n">>)
    @@ ("main_topic" :> <<"m", "a", "i", "n", "_", "t", "o", "p", "i", "c">>)
    @@ ("sub_topic" :> <<"s", "u", "b", "_", "t", "o", "p", "i", "c">>)
    @@ ("topics" :> <<"t", "o", "p", "i", "c", "s">>)
    @@ ("general" :> <<"g", "e", "n", "e", "r", "a", "l">>)
    @@ ("practical" :> <<"p", "r", "a", "c", "t", "i", "c", "a", "l">>)
    @@ ("theoretical" :> <<"t", "h", "e", "o", "r", "e", "t", "i", "c", "a", "l">>)
    @@ ("irrelevant" :> <<"i", "r", "r", "e", "l", "e", "v", "a", "n", "t">>)
    @@ ("General" :> <<"G", "e", "n", "e", "r", "a", "l">>)
    @@ ("json" :> <<"j", "s", "o", "n">>)
    @@ ("null" :> <<"n", "u", "l", "l">>)
    @@ ("true" :> <<"t", "r", "u", "e">>)
    @@ ("false" :> <<"f", "a", "l", "s", "e">>)
    @@ ("NaN" :> <<"N", "a", "N">>)
    @@ ("Infinity" :> <<"I", "n", "f", "i", "n", "i", "t", "y">>)
    @@ ("-Infinity" :> <<"-", "I", "n", "f", "i", "n", "i", "t", "y">>)
    @@ ("Sure practical" :>
         <<"S", "u", "r", "e", " ", "p", "r", "a", "c", "t", "i", "c", "a",
           "l">>)
    @@ ("Result: " :> <<"R", "e", "s", "u", "l", "t", ":", " ">>)
    @@ ("Numbers and Operations" :>
         <<"N", "u", "m", "b", "e", "r", "s", " ", "a", "n", "d", " ", "O",
           "p", "e", "r", "a", "t", "i", "o", "n", "s">>)
    @@ ("Natural Numbers" :>
         <<"N", "a", "t", "u", "r", "a", "l", " ", "N", "u", "m", "b", "e",
           "r", "s">>)
    @@ ("Whole Numbers" :>
         <<"W", "h", "o", "l", "e", " ", "N", "u", "m", "b", "e", "r", "s">>)
    @@ ("Integers" :> <<"I", "n", "t", "e", "g", "e", "r", "s">>)
    @@ ("Rational Numbers and Irrational Numbers" :>
         <<"R", "a", "t", "i", "o", "n", "a", "l", " ", "N", "u", "m", "b",
           "e", "r", "s", " ", "a", "n", "d", " ", "I", "r", "r", "a", "t",
           "i", "o", "n", "a", "l", " ", "N", "u", "m", "b", "e", "r", "s">>)
    @@ ("Real Numbers" :>
         <<"R", "e", "a", "l", " ", "N", "u", "m", "b", "e", "r", "s">>)
    @@ ("Arithmetic" :> <<"A", "r", "i", "t", "h", "m", "e", "t", "i", "c">>)
    @@ ("Addition and Subtraction" :>
         <<"A", "d", "d", "i", "t", "i", "o", "n", " ", "a", "n", "d", " ",
           "S", "u", "b", "t", "r", "a", "c", "t", "i", "o", "n">>)
    @@ ("Multiplication and Division" :>
         <<"M", "u", "l", "t", "i", "p", "l", "i", "c", "a", "t", "i", "o",
           "n", " ", "a", "n", "d", " ", "D", "i", "v", "i", "s", "i", "o",
           "n">>)
    @@ ("Order of Operations (PEMDAS)" :>
         <<"O", "r", "d", "e", "r", " ", "o", "f", " ", "O", "p", "e", "r",
           "a", "t", "i", "o", "n", "s", " ", "(", "P", "E", "M", "D", "A",
           "S", ")">>)
    @@ ("Factors and Multiples" :>
         <<"F", "a", "c", "t", "o", "r", "s", " ", "a", "n", "d", " ", "M",
           "u", "l", "t", "i", "p", "l", "e", "s">>)
    @@ ("Prime Numbers and Composite Numbers" :>
         <<"P", "r", "i", "m", "e", " ", "N", "u", "m", "b", "e", "r", "s",
           " ", "a", "n", "d", " ", "C", "o", "m", "p", "o", "s", "i", "t",
           "e", " ", "N", "u", "m", "b", "e", "r", "s">>)
    @@ ("Basic Algebra" :>
         <<"B", "a", "s", "i", "c", " ", "A", "l", "g", "e", "b", "r", "a">>)
    @@ ("Variables and Expressions" :>
         <<"V", "a", "r", "i", "a", "b", "l", "e", "s", " ", "a", "n", "d",
           " ", "E", "x", "p", "r", "e", "s", "s", "i", "o", "n", "s">>)
    @@ ("Simple Equations and Inequalities" :>
         <<"S", "i", "m", "p", "l", "e", " ", "E", "q", "u", "a", "t", "i",
           "o", "n", "s", " ", "a", "n", "d", " ", "I", "n", "e", "q", "u",
           "a", "l", "i", "t", "i", "e", "s">>)
    @@ ("Patterns and Sequences" :>
         <<"P", "a", "t", "t", "e", "r", "n", "s", " ", "a", "n", "d", " ",
           "S", "e", "q", "u", "e", "n", "c", "e", "s">>)
    @@ ("Coordinate Plane and Graphing" :>
         <<"C", "o", "o", "r", "d", "i", "n", "a", "t", "e", " ", "P", "l",
           "a", "n", "e", " ", "a", "n", "d", " ", "G", "r", "a", "p", "h",
           "i", "n", "g">>)
    @@ ("Linear Equations and Systems" :>
         <<"L", "i", "n", "e", "a", "r", " ", "E", "q", "u", "a", "t", "i",
           "o", "n", "s", " ", "a", "n", "d", " ", "S", "y", "s", "t", "e",
           "m", "s">>)

\* The text of each word.
Texts == Only({[w \in DOMAIN spelling |-> Code(spelling[w])] : spelling \in {Spelling}})

\* The text of a word.
Chars(w) == Texts[w]

\* The markdown fence with its language tag (start_marker), and the bare
\* fence (end_marker).
FenceJson == <<BQ, BQ, BQ>> \o Code(<<"j", "s", "o", "n">>)

Fence == <<BQ, BQ, BQ>>

\* The characters str.strip() removes: those str.isspace() is true of.
PyWhitespace ==
    (9..13) \cup (28..32) \cup {133, 160, 5760} \cup (8192..8202)
    \cup {8232, 8233, 8239, 8287, 12288}

\* The white space json.loads skips between tokens: space, tab, line feed and
\* carriage return.
JsonWhitespace == {Ord[c] : c \in {" ", "\t", "\n", "\r"}}

\* The characters up to U+001F, which a JSON string may not hold unescaped.
ControlChars == 0..31

Digits == {Ord[c] : c \in {"0", "1", "2", "3", "4", "5", "6", "7", "8", "9"}}

\* The digits of base 16 in the order of their values, in small and in
\* capital letters.
HexLower ==
    Code(<<"0", "1", "2", "3", "4", "5", "6", "7", "8", "9", "a", "b", "c", "d", "e", "f">>)

HexUpper ==
    Code(<<"0", "1", "2", "3", "4", "5", "6", "7", "8", "9", "A", "B", "C", "D", "E", "F">>)

\* The value of a hexadecimal digit, -1 for any other character.
HexVal(c) ==
    Only({IF \E i \in 1..16 : c \in {lower[i], upper[i]}
          THEN (CHOOSE i \in 1..16 : c \in {lower[i], upper[i]}) - 1
          ELSE 0 - 1 : lower \in {HexLower}, upper \in {HexUpper}})

\* sys.get_int_max_str_digits(): int() of more decimal digits raises ValueError.
IntMaxStrDigits == 4300

\* sys.getrecursionlimit(), which the program leaves as it is.
RecursionLimit == 1000

\* The Python frames on the stack while JSONDecoder.raw_decode runs under
\* main.py: the module, main, run, process_command, the handler of the
\* message, _process_ai_interaction, call_model, _classify_query, classify,
\* _parse_ai_response, loads, decode, raw_decode. A caller with fewer frames
\* leaves as many more levels of nesting.
Frames == 13

\* The character at offset i (0-based) of s, -1 past the end.
At(s, i) == IF 0 <= i /\ i < Len(s) THEN s[i + 1] ELSE 0 - 1

\* s[a:b] for offsets 0 <= a.
Slice(s, a, b) == SubSeq(s, a + 1, Min(b, Len(s)))

\* The number of characters of the set C that follow one another from offset i.
Span(s, i, C) ==
    CHOOSE k \in 0..Len(s) :
        /\ At(s, i + k) \notin C
        /\ \A m \in 0..(k - 1) : At(s, i + m) \in C

\* The number of characters of the set C that precede the end of s.
SpanBack(s, C) ==
    CHOOSE k \in 0..Len(s) :
        /\ k = Len(s) \/ s[Len(s) - k] \notin C
        /\ \A m \in 0..(k - 1) : s[Len(s) - m] \in C

\* str.strip()
Strip(s) ==
    Only({SubSeq(t, Span(t, 0, PyWhitespace) + 1, Len(t) - SpanBack(t, PyWhitespace)) :
              t \in {s}})

\* str.startswith(prefix)
StartsWith(s, prefix) == Len(s) >= Len(prefix) /\ SubSeq(s, 1, Len(prefix)) = prefix

\* The offsets at which sub occurs in s.
Occurrences(s, sub) ==
    {i \in 0..(Len(s) - Len(sub)) : s[i + 1] = sub[1] /\ Slice(s, i, i + Len(sub)) = sub}

\* str.find(sub): the lowest offset of sub in s, -1 when there is none.
Find(s, sub) ==
    LET at == Occurrences(s, sub)
    IN  IF at = {} THEN 0 - 1 ELSE CHOOSE i \in at : \A j \in at : i <= j

\* str.rfind(sub): the highest offset of sub in s, -1 when there is none.
RFind(s, sub) ==
    LET at == Occurrences(s, sub)
    IN  IF at = {} THEN 0 - 1 ELSE CHOOSE i \in at : \A j \in at : j <= i

\* content.rfind(end_marker): the last three grave accents of the text,
\* wherever they stand (in a longer run, in a string literal, in the start
\* marker).
RFindFence(content) == RFind(content, Fence)

\* A JSON value: t is its type, v its content. A str holds its characters, an
\* int its decimal digits (with the sign of a negative one), a float the
\* literal float() is given, a list its values in order, a dict its set of
\* <<key, value>> pairs.
JsonVal(t, v) == [t |-> t, v |-> v]

\* Reading a value raised exc: JSONDecodeError, ValueError or RecursionError.
Raise(exc) == [ok |-> FALSE, exc |-> exc, val |-> JsonVal("null", "null"), end |-> 0]

ParseFail == Raise("JSONDecodeError")

\* The value read, and the offset after it.
Parsed(val, end) == [ok |-> TRUE, exc |-> "none", val |-> val, end |-> end]

\* The offset of the first character from end on that is no JSON white space.
SkipWhitespace(s, end) == end + Span(s, end, JsonWhitespace)

\* json.decoder.BACKSLASH: the characters the simple escapes stand for.
Backslash ==
    LET Same == {"\"", "\\", "/"}
        Letters == <<"f", "n", "r", "t">>
        Controls == <<"\f", "\n", "\r", "\t">>
    IN  [c \in {Ord[x] : x \in Same} |-> c]
        @@ [c \in {Ord[Letters[i]] : i \in 1..4} |->
               Ord[Controls[CHOOSE i \in 1..4 : Ord[Letters[i]] = c]]]
        @@ (Ord["b"] :> 8)

\* The code unit the escape \uXXXX stands for, XXXX being esc; -1 when esc is
\* not four hexadecimal digits.
UnicodeChar(esc) ==
    Only({IF Len(esc) = 4 /\ \A i \in 1..4 : v[i] >= 0
          THEN ((v[1] * 16 + v[2]) * 16 + v[3]) * 16 + v[4]
          ELSE 0 - 1 :
              v \in {[i \in 1..Len(esc) |-> HexVal(esc[i])]}})

\* The code units U+D800 to U+DBFF and U+DC00 to U+DFFF.
HighSurrogates == 55296..56319

LowSurrogates == 56320..57343

\* The character a high and a low surrogate stand for together.
JoinSurrogates(c, c2) == 65536 + (c - 55296) * 1024 + (c2 - 56320)

\* The offset of the first character from end on that ends a chunk of a
\* string literal: the quote, the backslash, a control character, or the end
\* of the text.
ChunkEnd(s, end) ==
    end + CHOOSE k \in 0..Len(s) :
              /\ At(s, end + k) \in {Ord["\""], Ord["\\"], 0 - 1} \cup ControlChars
              /\ \A m \in 0..(k - 1) :
                     At(s, end + m) \notin {Ord["\""], Ord["\\"]} \cup ControlChars

RECURSIVE ScanString(_, _, _)
\* json.decoder.scanstring (strict): the string literal whose characters
\* begin at offset end, after its opening quote; acc holds the characters
\* read before end. val is the text of the string. A high surrogate escape
\* followed by a low surrogate escape is one character; any other \uXXXX is
\* the character of that code.
ScanString(s, end, acc) ==
    Only({
        IF At(s, stop) = Ord["\""]
        THEN Parsed(acc \o Slice(s, end, stop), stop + 1)
        ELSE IF At(s, stop) # Ord["\\"] THEN ParseFail
        ELSE IF At(s, stop + 1) \in DOMAIN Backslash
        THEN ScanString(s, stop + 2,
                        acc \o Slice(s, end, stop) \o <<Backslash[At(s, stop + 1)]>>)
        ELSE IF At(s, stop + 1) # Ord["u"] \/ UnicodeChar(Slice(s, stop + 2, stop + 6)) < 0
        THEN ParseFail
        ELSE IF /\ UnicodeChar(Slice(s, stop + 2, stop + 6)) \in HighSurrogates
                /\ Slice(s, stop + 6, stop + 8) = <<Ord["\\"], Ord["u"]>>
        THEN IF UnicodeChar(Slice(s, stop + 8, stop + 12)) < 0 THEN ParseFail
             ELSE IF UnicodeChar(Slice(s, stop + 8, stop + 12)) \in LowSurrogates
             THEN ScanString(s, stop + 12,
                             acc \o Slice(s, end, stop)
                                 \o <<JoinSurrogates(UnicodeChar(Slice(s, stop + 2, stop + 6)),
                                                     UnicodeChar(Slice(s, stop + 8, stop + 12)))>>)
             ELSE ScanString(s, stop + 6,
                             acc \o Slice(s, end, stop)
                                 \o <<UnicodeChar(Slice(s, stop + 2, stop + 6))>>)
        ELSE ScanString(s, stop + 6,
                        acc \o Slice(s, end, stop)
                            \o <<UnicodeChar(Slice(s, stop + 2, stop + 6))>>) :
            stop \in {ChunkEnd(s, end)}})

\* json.scanner.NUMBER_RE matched at offset idx, and the number made of the
\* match: a float when the literal has a fraction or an exponent, held as the
\* literal; otherwise an int, held as its decimal digits, which int() makes
\* of at most IntMaxStrDigits digits and raises ValueError for more.
MatchNumber(s, idx) ==
    Only({Only({Only({Only({Only({
        IF int_end = int_start THEN ParseFail
        ELSE IF exp_end > int_end
        THEN Parsed(JsonVal("float", Slice(s, idx, exp_end)), exp_end)
        ELSE IF int_end - int_start > IntMaxStrDigits THEN Raise("ValueError")
        ELSE IF Slice(s, idx, int_end) = <<Ord["-"], Ord["0"]>>
        THEN Parsed(JsonVal("int", <<Ord["0"]>>), int_end)
        ELSE Parsed(JsonVal("int", Slice(s, idx, int_end)), int_end) :
            exp_end \in {IF /\ At(s, frac_end) \in {Ord["e"], Ord["E"]}
                            /\ Span(s, exp_start, Digits) > 0
                         THEN exp_start + Span(s, exp_start, Digits)
                         ELSE frac_end}}) :
            exp_start \in {IF At(s, frac_end + 1) \in {Ord["+"], Ord["-"]}
                           THEN frac_end + 2 ELSE frac_end + 1}}) :
            frac_end \in {IF /\ At(s, int_end) = Ord["."]
                             /\ Span(s, int_end + 1, Digits) > 0
                          THEN int_end + 1 + Span(s, int_end + 1, Digits)
                          ELSE int_end}}) :
            int_end \in {IF At(s, int_start) = Ord["0"] THEN int_start + 1
                         ELSE int_start + Span(s, int_start, Digits)}}) :
            int_start \in {IF At(s, idx) = Ord["-"] THEN idx + 1 ELSE idx}})

\* The word at offset idx of s.
WordAt(s, idx, w) == Only({Slice(s, idx, idx + Len(word)) = word : word \in {Code(w)}})

RECURSIVE ScanOnce(_, _, _), ObjectMembers(_, _, _, _), ArrayElements(_, _, _, _)
\* json.scanner scan_once: the JSON value that begins at offset idx, inside
\* depth objects and arrays. Entering an object or an array takes one level
\* of the recursion limit, and raises RecursionError when none is left.
ScanOnce(s, idx, depth) ==
    Only({
        IF nextchar = Ord["\""]
        THEN Only({IF string.ok THEN Parsed(JsonVal("str", string.val), string.end)
                   ELSE ParseFail :
                       string \in {ScanString(s, idx + 1, <<>>)}})
        ELSE IF nextchar \in {Ord["{"], Ord["["]} /\ Frames + depth + 1 >= RecursionLimit
        THEN Raise("RecursionError")
        ELSE IF nextchar = Ord["{"]
        THEN Only({IF At(s, end) = Ord["}"] THEN Parsed(JsonVal("dict", {}), end + 1)
                   ELSE IF At(s, end) = Ord["\""]
                   THEN ObjectMembers(s, end + 1, {}, depth + 1)
                   ELSE ParseFail :
                       end \in {SkipWhitespace(s, idx + 1)}})
        ELSE IF nextchar = Ord["["]
        THEN Only({IF At(s, end) = Ord["]"] THEN Parsed(JsonVal("list", <<>>), end + 1)
                   ELSE ArrayElements(s, end, <<>>, depth + 1) :
                       end \in {SkipWhitespace(s, idx + 1)}})
        ELSE IF WordAt(s, idx, <<"n", "u", "l", "l">>)
        THEN Parsed(JsonVal("null", "null"), idx + 4)
        ELSE IF WordAt(s, idx, <<"t", "r", "u", "e">>)
        THEN Parsed(JsonVal("true", "true"), idx + 4)
        ELSE IF WordAt(s, idx, <<"f", "a", "l", "s", "e">>)
        THEN Parsed(JsonVal("false", "false"), idx + 5)
        ELSE IF WordAt(s, idx, <<"N", "a", "N">>)
        THEN Parsed(JsonVal("float", Slice(s, idx, idx + 3)), idx + 3)
        ELSE IF WordAt(s, idx, <<"I", "n", "f", "i", "n", "i", "t", "y">>)
        THEN Parsed(JsonVal("float", Slice(s, idx, idx + 8)), idx + 8)
        ELSE IF WordAt(s, idx, <<"-", "I", "n", "f", "i", "n", "i", "t", "y">>)
        THEN Parsed(JsonVal("float", Slice(s, idx, idx + 9)), idx + 9)
        ELSE IF nextchar \in Digits \cup {Ord["-"]}
        THEN MatchNumber(s, idx)
        ELSE ParseFail :
            nextchar \in {At(s, idx)}})

\* json.decoder.JSONObject from the first key on: end is the offset after the
\* opening quote of a key, pairs the members read so far, depth the nesting
\* of the object. A Python dict is held as its set of <<key, value>> pairs; a
\* repeated key keeps its last value. What reading a value raises is raised.
ObjectMembers(s, end, pairs, depth) ==
    Only({
        IF ~key.ok \/ At(s, SkipWhitespace(s, key.end)) # Ord[":"] THEN ParseFail
        ELSE Only({
            IF ~value.ok THEN value
            ELSE Only({
                IF At(s, after) = Ord["}"]
                THEN Parsed(JsonVal("dict", {p \in pairs : p[1] # key.val}
                                            \cup {<<key.val, value.val>>}),
                            after + 1)
                ELSE IF At(s, after) = Ord[","]
                        /\ At(s, SkipWhitespace(s, after + 1)) = Ord["\""]
                THEN ObjectMembers(s, SkipWhitespace(s, after + 1) + 1,
                                   {p \in pairs : p[1] # key.val}
                                   \cup {<<key.val, value.val>>}, depth)
                ELSE ParseFail :
                    after \in {SkipWhitespace(s, value.end)}}) :
                value \in {ScanOnce(s, SkipWhitespace(s, SkipWhitespace(s, key.end) + 1),
                                    depth)}}) :
            key \in {ScanString(s, end, <<>>)}})

\* json.decoder.JSONArray from the first element on: end is the offset of an
\* element, items the elements read so far, depth the nesting of the array.
\* A Python list is a sequence.
ArrayElements(s, end, items, depth) ==
    Only({
        IF ~value.ok THEN value
        ELSE Only({
            IF At(s, after) = Ord["]"]
            THEN Parsed(JsonVal("list", Append(items, value.val)), after + 1)
            ELSE IF At(s, after) = Ord[","]
            THEN ArrayElements(s, SkipWhitespace(s, after + 1), Append(items, value.val),
                               depth)
            ELSE ParseFail :
                after \in {SkipWhitespace(s, value.end)}}) :
            value \in {ScanOnce(s, end, depth)}})

\* json.loads: one value, with JSON white space before and after it, and
\* nothing else. exc is what it raises: JSONDecodeError for a text that is no
\* JSON, ValueError for an integer of too many digits, RecursionError for a
\* value nested too deep.
JsonLoads(text) ==
    Only({
        Only({
            IF ~obj.ok THEN [ok |-> FALSE, exc |-> obj.exc, val |-> obj.val]
            ELSE IF SkipWhitespace(s, obj.end) # Len(s)
            THEN [ok |-> FALSE, exc |-> "JSONDecodeError", val |-> JsonVal("null", "null")]
            ELSE [ok |-> TRUE, exc |-> "none", val |-> obj.val] :
                obj \in {ScanOnce(s, SkipWhitespace(s, 0), 0)}}) :
            s \in {text}})

\* The str value that is the word w.
Str(w) == JsonVal("str", Chars(w))

\* dict.get(key, default)
DictGet(d, key, default) ==
    IF \E p \in d : p[1] = key THEN (CHOOSE p \in d : p[1] = key)[2] ELSE default

\* config.topics_hierarchy: the subtopics listed under each main topic.
topics_hierarchy ==
    ("Numbers and Operations" :>
         {"Natural Numbers", "Whole Numbers", "Integers",
          "Rational Numbers and Irrational Numbers", "Real Numbers"})
    @@ ("Arithmetic" :>
         {"Addition and Subtraction", "Multiplication and Division",
          "Order of Operations (PEMDAS)", "Factors and Multiples",
          "Prime Numbers and Composite Numbers"})
    @@ ("Basic Algebra" :>
         {"Variables and Expressions", "Simple Equations and Inequalities",
          "Patterns and Sequences", "Coordinate Plane and Graphing",
          "Linear Equations and Systems"})

\* The four classification categories.
Categories == {"general", "practical", "theoretical", "irrelevant"}

\* The empty dict.
EmptyResult == {}

\* The text json.loads is given: the reply stripped, and when it starts with
\* the json fence the stripped text between that fence and the last three
\* grave accents, when those lie after it.
Unwrap(response_content) ==
    Only({
        IF StartsWith(content, FenceJson)
        THEN LET start_marker == FenceJson
                 start_idx == Find(content, start_marker) + Len(start_marker)
                 end_idx == RFindFence(content)
             IN  IF start_idx > Len(start_marker) - 1 /\ end_idx > start_idx
                 THEN Strip(Slice(content, start_idx, end_idx))
                 ELSE content
        ELSE content :
            content \in {Strip(response_content)}})

\* _parse_ai_response without the check of the classification value.
parse_ai_response_AnyCategory(response_content) ==
    LET json_response == JsonLoads(Unwrap(response_content))
    IN  IF ~json_response.ok THEN EmptyResult
        ELSE IF json_response.val.t # "dict" THEN EmptyResult
        ELSE IF ~(\E p \in json_response.val.v : p[1] = Chars("classification"))
        THEN EmptyResult
        ELSE json_response.val.v

\* Classifier._parse_ai_response. Whatever json.loads raises (JSONDecodeError,
\* and ValueError or RecursionError under "except Exception") ends in the
\* empty dictionary returned after the two handlers.
parse_ai_response(response_content) ==
    Only({
        IF ~json_response.ok THEN EmptyResult
        ELSE IF json_response.val.t # "dict" THEN EmptyResult
        ELSE LET classification ==
                     DictGet(json_response.val.v, Chars("classification"), Str(""))
             IN  IF classification \notin {Str(c) : c \in Categories}
                 THEN EmptyResult
                 ELSE json_response.val.v :
            json_response \in {JsonLoads(Unwrap(response_content))}})

\* Classifier.classify: the reply of the classification model, or its failure.
classify(reply) ==
    IF reply.exc THEN EmptyResult ELSE parse_ai_response(reply.content)

\* -------------------------------------------------------- the chat service

\* get_memory's default limit, the one ChatService passes.
DefaultLimit == 5

\* start_new_session dropping the active session before it looks for the new
\* one, so that a failure leaves none.
start_new_session_DropsActive(d, cs, name, fail) ==
    IF "get_session" \in fail
    THEN [db |-> d, chat_service |-> [cs EXCEPT !.session_id = None], exc |-> "Error",
          ret |-> None, calls |-> <<"get_session">>]
    ELSE LET found == get_session(d, name)
         IN  IF found = None
             THEN LET c == create_session(d, name, "create_session" \in fail)
                  IN  IF c.exc # "none"
                      THEN [db |-> d, chat_service |-> [cs EXCEPT !.session_id = None],
                            exc |-> c.exc, ret |-> None,
                            calls |-> <<"get_session", "create_session">>]
                      ELSE [db |-> c.db, chat_service |-> [cs EXCEPT !.session_id = c.ret],
                            exc |-> "none", ret |-> c.ret,
                            calls |-> <<"get_session", "create_session">>]
             ELSE [db |-> d, chat_service |-> [cs EXCEPT !.session_id = found],
                   exc |-> "none", ret |-> found, calls |-> <<"get_session">>]

\* ChatService.start_new_session. fail: the Database methods that raise
\* sqlite3.Error during this call.
start_new_session(d, cs, name, fail) ==
    IF "get_session" \in fail
    THEN [db |-> d, chat_service |-> cs, exc |-> "Error", ret |-> None,
          calls |-> <<"get_session">>]
    ELSE LET found == get_session(d, name)
         IN  IF found = None
             THEN LET c == create_session(d, name, "create_session" \in fail)
                  IN  IF c.exc # "none"
                      THEN [db |-> d, chat_service |-> cs, exc |-> c.exc, ret |-> None,
                            calls |-> <<"get_session", "create_session">>]
                      ELSE [db |-> c.db, chat_service |-> [cs EXCEPT !.session_id = c.ret],
                            exc |-> "none", ret |-> c.ret,
                            calls |-> <<"get_session", "create_session">>]
             ELSE [db |-> d, chat_service |-> [cs EXCEPT !.session_id = found],
                   exc |-> "none", ret |-> found, calls |-> <<"get_session">>]

\* The text of one stored turn in the context: "User: u" and "Assistant: r".
TurnLines(turn) == <<<<"User", turn[1]>>, <<"Assistant", turn[2]>>>>

RECURSIVE JoinTurns(_)
\* "\n".join over the turns: the lines of the context, in order.
JoinTurns(memory) ==
    IF memory = <<>> THEN <<>> ELSE TurnLines(Head(memory)) \o JoinTurns(Tail(memory))

\* ChatService._get_conversation_context: the turns get_memory returns, as
\* text; the empty text when get_memory raises.
get_conversation_context(d, cs, fail) ==
    IF "get_memory" \in fail THEN <<>>
    ELSE JoinTurns(get_memory(d, cs.session_id, DefaultLimit))

\* The rows behind that context.
ContextRows(d, cs, fail) ==
    IF "get_memory" \in fail THEN <<>>
    ELSE get_memory_rows(d, cs.session_id, DefaultLimit)

\* _select_system_prompt without the 'general' default for a missing field.
select_system_prompt_NoDefault(classification_result) ==
    LET c == DictGet(classification_result, Chars("classification"), JsonVal("null", "null"))
    IN  IF c = Str("practical") THEN "practical_learning_prompt"
        ELSE IF c = Str("theoretical") THEN "theoretical_learning_prompt"
        ELSE IF c = Str("general") THEN "general_chitchat_prompt"
        ELSE IF c = Str("irrelevant") THEN "irrelevant_response_prompt"
        ELSE "default_system_prompt"

\* _select_system_prompt with the two learning styles exchanged.
select_system_prompt_StylesExchanged(classification_result) ==
    LET c == DictGet(classification_result, Chars("classification"), Str("general"))
    IN  IF c = Str("practical") THEN "theoretical_learning_prompt"
        ELSE IF c = Str("theoretical") THEN "practical_learning_prompt"
        ELSE IF c = Str("general") THEN "general_chitchat_prompt"
        ELSE IF c = Str("irrelevant") THEN "irrelevant_response_prompt"
        ELSE "default_system_prompt"

\* ChatService._select_system_prompt: the key of the prompt selected.
select_system_prompt(classification_result) ==
    LET c == DictGet(classification_result, Chars("classification"), Str("general"))
    IN  IF c = Str("practical") THEN "practical_learning_prompt"
        ELSE IF c = Str("theoretical") THEN "theoretical_learning_prompt"
        ELSE IF c = Str("general") THEN "general_chitchat_prompt"
        ELSE IF c = Str("irrelevant") THEN "irrelevant_response_prompt"
        ELSE "default_system_prompt"

\* ChatService._build_contextual_prompt: the system prompt and the user
\* prompt, with the history when there is one.
build_contextual_prompt(current_query, memory, system_prompt) ==
    [system |-> system_prompt, history |-> memory, query |-> current_query]

\* call_model catching the failure of the generation call and answering with
\* an empty response.
call_model_SwallowsGeneration(d, cs, prompt, reply, generated, fail) ==
    IF cs.session_id = None
    THEN [db |-> d, exc |-> "NoActiveSession", ret |-> "", calls |-> <<>>,
          rows |-> <<>>, prompt |-> build_contextual_prompt(prompt, <<>>, "")]
    ELSE LET classification_result == classify(reply)
             memory == get_conversation_context(d, cs, fail)
             system_prompt == select_system_prompt(classification_result)
             full_prompt == build_contextual_prompt(prompt, memory, system_prompt)
             rows == ContextRows(d, cs, fail)
             response == IF generated = "error" THEN "" ELSE generated
             a == add_message(d, cs.session_id, prompt, response, "add_message" \in fail)
         IN  [db |-> a.db, exc |-> a.exc,
              ret |-> IF a.exc = "none" THEN response ELSE "",
              calls |-> <<"classify", "get_memory", "generate", "add_message">>,
              rows |-> rows, prompt |-> full_prompt]

\* call_model writing the turn before the response is generated.
call_model_StoresFirst(d, cs, prompt, reply, generated, fail) ==
    IF cs.session_id = None
    THEN [db |-> d, exc |-> "NoActiveSession", ret |-> "", calls |-> <<>>,
          rows |-> <<>>, prompt |-> build_contextual_prompt(prompt, <<>>, "")]
    ELSE LET classification_result == classify(reply)
             memory == get_conversation_context(d, cs, fail)
             system_prompt == select_system_prompt(classification_result)
             full_prompt == build_contextual_prompt(prompt, memory, system_prompt)
             rows == ContextRows(d, cs, fail)
             a == add_message(d, cs.session_id, prompt,
                              IF generated = "error" THEN "" ELSE generated,
                              "add_message" \in fail)
         IN  IF a.exc # "none"
             THEN [db |-> a.db, exc |-> a.exc, ret |-> "",
                   calls |-> <<"classify", "get_memory", "add_message">>,
                   rows |-> rows, prompt |-> full_prompt]
             ELSE [db |-> a.db,
                   exc |-> IF generated = "error" THEN "ModelError" ELSE "none",
                   ret |-> IF generated = "error" THEN "" ELSE generated,
                   calls |-> <<"classify", "get_memory", "add_message", "generate">>,
                   rows |-> rows, prompt |-> full_prompt]

\* ChatService.call_model. reply: what the classification model answers;
\* generated: the response of the generation model, or "error" when it raises.
call_model(d, cs, prompt, reply, generated, fail) ==
    IF cs.session_id = None
    THEN [db |-> d, exc |-> "NoActiveSession", ret |-> "", calls |-> <<>>,
          rows |-> <<>>, prompt |-> build_contextual_prompt(prompt, <<>>, "")]
    ELSE LET classification_result == classify(reply)
             memory == get_conversation_context(d, cs, fail)
             system_prompt == select_system_prompt(classification_result)
         IN  Only({
                 IF generated = "error"
                 THEN [db |-> d, exc |-> "ModelError", ret |-> "",
                       calls |-> <<"classify", "get_memory", "generate">>,
                       rows |-> rows, prompt |-> full_prompt]
                 ELSE LET a == add_message(d, cs.session_id, prompt, generated,
                                           "add_message" \in fail)
                      IN  [db |-> a.db, exc |-> a.exc,
                           ret |-> IF a.exc = "none" THEN generated ELSE "",
                           calls |-> <<"classify", "get_memory", "generate",
                                       "add_message">>,
                           rows |-> rows, prompt |-> full_prompt] :
                     full_prompt \in {build_contextual_prompt(prompt, memory,
                                                              system_prompt)},
                     rows \in {ContextRows(d, cs, fail)}})

\* clear_current_session_memory calling delete_session.
clear_current_session_memory_Deletes(d, cs, fail) ==
    IF cs.session_id = None
    THEN [db |-> d, exc |-> "NoActiveSession", calls |-> <<>>]
    ELSE LET c == delete_session(d, cs.session_id, "clear_memory" \in fail)
         IN  [db |-> c.db, exc |-> c.exc, calls |-> <<"clear_memory">>]

\* ChatService.clear_current_session_memory
clear_current_session_memory(d, cs, fail) ==
    IF cs.session_id = None
    THEN [db |-> d, exc |-> "NoActiveSession", calls |-> <<>>]
    ELSE LET c == clear_memory(d, cs.session_id, "clear_memory" \in fail)
         IN  [db |-> c.db, exc |-> c.exc, calls |-> <<"clear_memory">>]

\* ----------------------------------------------------------- the application

\* user_input.split(): a line of input is held as its words.
\* user_input.startswith('/')
StartsWithSlash(user_input) ==
    user_input[1] \in {"/quit", "/help", "/new", "/NEW", "/clear", "/show_info",
                       "/chat", "/Chat", "/foo"}

\* str.lower(), on the words that hold an upper-case letter.
Lower(word) ==
    IF word = "/NEW" THEN "/new"
    ELSE IF word = "/Chat" THEN "/chat"
    ELSE IF word = "English" THEN "english"
    ELSE IF word = "URDU" THEN "urdu"
    ELSE IF word = "Who are you now" THEN "who are you now"
    ELSE word

RECURSIVE Join(_)
\* " ".join(args)
Join(args) ==
    IF args = <<>> THEN ""
    ELSE IF Len(args) = 1 THEN args[1]
    ELSE args[1] \o " " \o Join(Tail(args))

\* The handler process_command selects.
Handler(user_input) ==
    IF StartsWithSlash(user_input)
    THEN LET command == Lower(user_input[1])
         IN  IF command \in {"/quit", "/help", "/new", "/clear", "/show_info", "/chat"}
             THEN command
             ELSE "unknown"
    ELSE "direct"

\* What a handler leaves: the store, the chat service, its return value (TRUE:
\* keep running), the exception it caught and reported, what it printed.
Outcome(d, cs, ret, exc, out, calls, rows, prompt) ==
    [db |-> d, chat_service |-> cs, ret |-> ret, exc |-> exc, out |-> out,
     calls |-> calls, rows |-> rows, prompt |-> prompt]

NoPrompt == build_contextual_prompt("", <<>>, "")

\* SulphiteApp._handle_new_session_command
handle_new_session_command(d, cs, session_name, fail) ==
    LET name == IF session_name # "" THEN session_name ELSE "default"
        r == start_new_session(d, cs, name, fail)
    IN  Outcome(r.db, r.chat_service, TRUE, r.exc, r.ret, r.calls, <<>>, NoPrompt)

\* SulphiteApp._handle_clear_command
handle_clear_command(d, cs, fail) ==
    LET r == clear_current_session_memory(d, cs, fail)
    IN  Outcome(r.db, cs, TRUE, r.exc, "", r.calls, <<>>, NoPrompt)

\* _process_ai_interaction returning False after a failure.
process_ai_interaction_StopsOnFailure(d, cs, message, reply, generated, fail) ==
    Only({Outcome(r.db, cs, r.exc = "none", r.exc, r.ret, r.calls, r.rows, r.prompt) :
              r \in {call_model(d, cs, message, reply, generated, fail)}})

\* SulphiteApp._process_ai_interaction
process_ai_interaction(d, cs, message, reply, generated, fail) ==
    Only({Outcome(r.db, cs, TRUE, r.exc, r.ret, r.calls, r.rows, r.prompt) :
              r \in {call_model(d, cs, message, reply, generated, fail)}})

\* SulphiteApp._handle_chat_command
handle_chat_command(d, cs, message, reply, generated, fail) ==
    IF message = ""
    THEN Outcome(d, cs, TRUE, "none", "", <<>>, <<>>, NoPrompt)
    ELSE process_ai_interaction(d, cs, message, reply, generated, fail)

\* SulphiteApp._handle_direct_message
handle_direct_message(d, cs, message, reply, generated, fail) ==
    process_ai_interaction(d, cs, message, reply, generated, fail)

\* SulphiteApp.process_command
process_command(d, cs, user_input, reply, generated, fail) ==
    LET h == Handler(user_input)
        arg_str == Join(Tail(user_input))
    IN  IF h = "/quit" THEN Outcome(d, cs, FALSE, "none", "", <<>>, <<>>, NoPrompt)
        ELSE IF h = "/new" THEN handle_new_session_command(d, cs, arg_str, fail)
        ELSE IF h = "/clear" THEN handle_clear_command(d, cs, fail)
        ELSE IF h = "/chat" THEN handle_chat_command(d, cs, arg_str, reply, generated, fail)
        ELSE IF h = "direct"
        THEN handle_direct_message(d, cs, Join(user_input), reply, generated, fail)
        ELSE Outcome(d, cs, TRUE, "none", "", <<>>, <<>>, NoPrompt)

\* -------------------------------------------------------- the state manager

\* The note StateManager writes when none is stored.
default_note == "This user is new. Pay attention to their learning style and preferences."

\* StateManager.load_permanent_memory: the stored note, or the default note,
\* which is stored first and then held. fail: the Database methods that raise.
load_permanent_memory(d, sm, fail) ==
    IF "get_permanent_memory" \in fail
    THEN [db |-> d, state |-> sm, exc |-> "Error"]
    ELSE LET memory == get_permanent_memory(d)
         IN  IF memory # ""
             THEN [db |-> d, state |-> [sm EXCEPT !.permanent_memory = memory],
                   exc |-> "none"]
             ELSE LET u == update_permanent_memory(d, default_note,
                                                   "update_permanent_memory" \in fail)
                  IN  IF u.exc # "none"
                      THEN [db |-> d, state |-> sm, exc |-> u.exc]
                      ELSE [db |-> u.db,
                            state |-> [sm EXCEPT !.permanent_memory = default_note],
                            exc |-> "none"]

\* StateManager.__init__: the fields, then load_permanent_memory, whose
\* exception is the exception of the construction.
StateManager(d, fail) ==
    load_permanent_memory(d, [session_id |-> 1, language_mode |-> "auto",
                              permanent_memory |-> "", current_prompt |-> ""], fail)

\* StateManager.set_language_mode
set_language_mode(sm, mode) == [sm EXCEPT !.language_mode = Lower(mode)]

\* StateManager.set_current_prompt
set_current_prompt(sm, prompt) == [sm EXCEPT !.current_prompt = prompt]

\* StateManager.new_session. fail: the Database methods that raise.
new_session(d, sm, name, fail) ==
    IF "get_session" \in fail
    THEN [db |-> d, state |-> sm, exc |-> "Error", ret |-> None]
    ELSE LET session_id == get_session(d, name)
         IN  IF session_id # None
             THEN [db |-> d, state |-> [sm EXCEPT !.session_id = session_id],
                   exc |-> "none", ret |-> session_id]
             ELSE LET c == create_session(d, name, "create_session" \in fail)
                  IN  IF c.exc # "none"
                      THEN [db |-> d, state |-> sm, exc |-> c.exc, ret |-> None]
                      ELSE [db |-> c.db, state |-> [sm EXCEPT !.session_id = c.ret],
                            exc |-> "none", ret |-> c.ret]

\* StateManager.update_permanent_memory: the field is assigned, then the row
\* is written; when the write raises, the field keeps the new note and the
\* exception goes to the caller. fail: the Database methods that raise.
sm_update_permanent_memory(d, sm, new_notes, fail) ==
    LET assigned == [sm EXCEPT !.permanent_memory = new_notes]
        u == update_permanent_memory(d, new_notes, "update_permanent_memory" \in fail)
    IN  [db |-> u.db, state |-> assigned, exc |-> u.exc]

\* -------------------------------------------------------- the chat manager

\* The keys of config.prompts.
PromptKeys ==
    {"general_chitchat_prompt", "default_system_prompt", "practical_learning_prompt",
     "theoretical_learning_prompt", "irrelevant_response_prompt", "classification_prompt"}

\* config.get_prompt: the prompt (held as its key), or KeyError.
get_prompt(prompt_name) ==
    IF prompt_name \notin PromptKeys
    THEN [exc |-> "KeyError", ret |-> ""]
    ELSE [exc |-> "none", ret |-> prompt_name]

\* The default k of ChatManager._get_conversation_context.
DefaultK == 3

\* The limit initialize_session_memory passes to get_memory.
InitLimit == 100

\* What _get_conversation_context returns when there is no history.
placeholder == "No conversation history yet."

\* The two fragments of a turn, as initialize_session_memory and
\* _add_to_semantic_memory write them.
new_texts(user_input, model_response) ==
    <<"User asked: " \o user_input, "AI answered: " \o model_response>>

RECURSIVE TextsOf(_)
\* The fragments of the turns get_memory returned, in order.
TextsOf(past_messages) ==
    IF past_messages = <<>> THEN <<>>
    ELSE new_texts(Head(past_messages)[1], Head(past_messages)[2])
             \o TextsOf(Tail(past_messages))

\* embedding_model.encode(texts): one vector per text, held as the text it embeds.
encode(texts) == [i \in 1..Len(texts) |-> [vec |-> texts[i]]]

\* ChatManager.initialize_session_memory: the list and the index are emptied,
\* the turns of the session of the state manager are read (at most InitLimit)
\* and their fragments listed, then embedded and added to the index.
\* fail: the calls that raise.
initialize_session_memory(d, sm, fail) ==
    LET empty == [session_memory_texts |-> <<>>, memory_index |-> <<>>]
    IN  IF "get_memory" \in fail
        THEN [chat_manager |-> empty, exc |-> "Error"]
        ELSE LET texts == TextsOf(get_memory(d, sm.session_id, InitLimit))
             IN  IF texts = <<>>
                 THEN [chat_manager |-> empty, exc |-> "none"]
                 ELSE IF "encode" \in fail
                 THEN [chat_manager |-> [empty EXCEPT !.session_memory_texts = texts],
                       exc |-> "EncodeError"]
                 ELSE [chat_manager |-> [session_memory_texts |-> texts,
                                         memory_index |-> encode(texts)],
                       exc |-> "none"]

\* ChatManager._add_to_semantic_memory: the list is extended, then the new
\* texts are embedded and added to the index.
add_to_semantic_memory(cm, user_input, model_response, fail) ==
    LET texts == new_texts(user_input, model_response)
        extended == [cm EXCEPT !.session_memory_texts = @ \o texts]
    IN  IF "encode" \in fail
        THEN [chat_manager |-> extended, exc |-> "EncodeError"]
        ELSE [chat_manager |-> [extended EXCEPT !.memory_index = @ \o encode(texts)],
              exc |-> "none"]

\* The L2 distance of a stored vector to the query: metric lists the texts by
\* ascending distance of their embeddings to the embedding of the query.
Distance(metric, vector) == CHOOSE i \in 1..Len(metric) : metric[i] = vector.vec

RECURSIVE SortByDistance(_, _, _)
\* The positions of the index (from 1) by ascending distance, the lower
\* position first among equal distances.
SortByDistance(index, metric, positions) ==
    IF positions = {} THEN <<>>
    ELSE LET m == CHOOSE i \in positions : \A j \in positions :
                      \/ Distance(metric, index[i]) < Distance(metric, index[j])
                      \/ /\ Distance(metric, index[i]) = Distance(metric, index[j])
                         /\ i <= j
         IN  <<m>> \o SortByDistance(index, metric, positions \ {m})

\* memory_index.search(query_embedding, k): the labels I[0], k of them, nearest
\* first, counted from 0; -1 where the index holds fewer than k vectors.
search(index, metric, k) ==
    LET sorted == SortByDistance(index, metric, 1..Len(index))
    IN  [n \in 1..k |-> IF n <= Len(sorted) THEN sorted[n] - 1 ELSE 0 - 1]

\* The position (from 1) list[i] reads in Python: a negative i counts from the end.
PyPosition(list, i) == IF i < 0 THEN Len(list) + 1 + i ELSE i + 1

\* list[i] in Python
PyIndex(list, i) == list[PyPosition(list, i)]

RECURSIVE JoinLines(_)
\* "\n".join(lines)
JoinLines(lines) ==
    IF lines = <<>> THEN ""
    ELSE IF Len(lines) = 1 THEN lines[1]
    ELSE lines[1] \o "\n" \o JoinLines(Tail(lines))

\* _get_conversation_context giving the placeholder only for an empty list: on
\* an empty index it joins what the search returned.
cm_get_conversation_context_NoIndexCheck(cm, metric, k) ==
    IF cm.session_memory_texts = <<>>
    THEN [ret |-> placeholder, I |-> <<>>, snippets |-> <<>>]
    ELSE LET I == search(cm.memory_index, metric, k)
             relevant_snippets ==
                 IF Len(cm.memory_index) = 0 THEN <<>>
                 ELSE [n \in 1..Len(I) |-> PyIndex(cm.session_memory_texts, I[n])]
         IN  [ret |-> JoinLines(Reverse(relevant_snippets)), I |-> I,
              snippets |-> relevant_snippets]

\* ChatManager._get_conversation_context: ret is the context, I the labels the
\* search returned, snippets the fragments read for them.
cm_get_conversation_context(cm, metric, k) ==
    IF cm.session_memory_texts = <<>> \/ Len(cm.memory_index) = 0
    THEN [ret |-> placeholder, I |-> <<>>, snippets |-> <<>>]
    ELSE LET I == search(cm.memory_index, metric, k)
             relevant_snippets ==
                 [n \in 1..Len(I) |-> PyIndex(cm.session_memory_texts, I[n])]
         IN  [ret |-> JoinLines(Reverse(relevant_snippets)), I |-> I,
              snippets |-> relevant_snippets]

\* ChatManager._detect_language: the answer of the model, stripped and in
\* lower case; "other" when get_prompt or the model raises.
detect_language(detected) ==
    IF get_prompt("language_detection_prompt").exc # "none" THEN "other"
    ELSE IF detected = "error" THEN "other"
    ELSE Lower(detected)

\* "?" in text
HasQuestionMark(text) == text \in {"a2?"}

\* ChatManager._get_query_type: new_question when the session has no turn or
\* its last response asks nothing; otherwise the answer of the model.
get_query_type(d, sm, query_type, fail) ==
    IF "get_memory" \in fail THEN [exc |-> "Error", ret |-> ""]
    ELSE LET last_exchange == get_memory(d, sm.session_id, 1)
         IN  IF last_exchange = <<>> \/ ~HasQuestionMark(last_exchange[1][2])
             THEN [exc |-> "none", ret |-> "new_question"]
             ELSE IF get_prompt("query_type_prompt").exc # "none"
             THEN [exc |-> "KeyError", ret |-> ""]
             ELSE IF query_type = "error" THEN [exc |-> "ModelError", ret |-> ""]
             ELSE [exc |-> "none", ret |-> Lower(query_type)]

\* "who are you" in prompt.lower() or "what is your name" in prompt.lower()
AsksIdentity(prompt) == Lower(prompt) \in {"who are you now", "what is your name"}

\* ResponseHandler.answer_identity_question
answer_identity_question == get_prompt("identity_prompt")

\* ChatManager._select_system_prompt: the prompt of the key selected, read
\* with config.get_prompt.
cm_select_system_prompt(classification_result) ==
    get_prompt(select_system_prompt(classification_result))

\* What ChatManager.call_model leaves: the store, the manager, the exception
\* raised or the response returned, the calls made, and the system prompt the
\* response was generated under (the key selected and the sentence appended).
CmOutcome(d, cm, exc, ret, calls, system_prompt) ==
    [db |-> d, chat_manager |-> cm, exc |-> exc, ret |-> ret, calls |-> calls,
     system_prompt |-> system_prompt]

\* The sentence call_model appends to the system prompt for a language mode.
LanguageSuffix(language_mode) ==
    IF language_mode = "english" THEN "\n\nIMPORTANT: You must respond in English."
    ELSE IF language_mode = "urdu" THEN "\n\nIMPORTANT: You must respond in Roman Urdu."
    ELSE ""

\* The reminder of the language gate of call_model.
LanguageReminder(language_mode) ==
    IF language_mode = "english"
    THEN "Language mode is set to English. Please type in English."
    ELSE "Language mode Urdu par set hai. Baraye meharbani Urdu mein likhein."

\* The language gate that also stops a message whose language was not
\* detected.
LanguageGate_IgnoresOther(language_mode, detected_lang) ==
    /\ language_mode # "auto"
    /\ detected_lang # language_mode

\* The test of the language gate of call_model: a mode is set, a language was
\* detected, and it is not the language of the mode.
LanguageGate(language_mode, detected_lang) ==
    /\ language_mode # "auto"
    /\ detected_lang # "other"
    /\ detected_lang # language_mode

\* ChatManager.call_model, given the language _detect_language returns for
\* the prompt. query_type, reply, generated: what the models answer ("error":
\* the call raises); metric: the distances of the stored fragments to the
\* prompt; fail: the calls that raise (encode_query: the embedding of the
\* prompt, encode: the embedding of the new fragments).
cm_call_model_detected(d, sm, cm, detected_lang, query_type, reply, generated, metric, fail) ==
    LET prompt == sm.current_prompt
        language_mode == sm.language_mode
        identity == answer_identity_question
        qt == get_query_type(d, sm, query_type, fail)
        classification_result ==
            IF qt.ret = "new_question" THEN classify(reply)
            ELSE {<<Chars("classification"), Str("practical")>>}
        context == cm_get_conversation_context(cm, metric, DefaultK).ret
        selected == cm_select_system_prompt(classification_result)
        system_prompt == <<selected.ret, LanguageSuffix(language_mode)>>
    IN  IF AsksIdentity(prompt)
        THEN CmOutcome(d, cm, identity.exc, identity.ret, <<"identity">>, <<>>)
        ELSE IF /\ LanguageGate(language_mode, detected_lang)
                /\ language_mode \in {"english", "urdu"}
        THEN CmOutcome(d, cm, "none", LanguageReminder(language_mode),
                       <<"detect_language">>, <<>>)
        ELSE IF qt.exc # "none"
        THEN CmOutcome(d, cm, qt.exc, "", <<"get_query_type">>, <<>>)
        ELSE IF "encode_query" \in fail /\ context # placeholder
        THEN CmOutcome(d, cm, "EncodeError", "", <<"get_query_type", "context">>, <<>>)
        ELSE IF selected.exc # "none"
        THEN CmOutcome(d, cm, selected.exc, "", <<"get_query_type", "context">>, <<>>)
        ELSE IF generated = "error"
        THEN CmOutcome(d, cm, "ModelError", "",
                       <<"get_query_type", "context", "generate">>, system_prompt)
        ELSE LET a == add_message(d, sm.session_id, prompt, generated, "add_message" \in fail)
             IN  IF a.exc # "none"
                 THEN CmOutcome(d, cm, a.exc, "",
                                <<"get_query_type", "context", "generate", "add_message">>,
                                system_prompt)
                 ELSE LET m == add_to_semantic_memory(cm, prompt, generated, fail)
                      IN  CmOutcome(a.db, m.chat_manager, m.exc,
                                    IF m.exc = "none" THEN generated ELSE "",
                                    <<"get_query_type", "context", "generate", "add_message",
                                      "add_to_semantic_memory">>, system_prompt)

\* ChatManager.call_model. detected: what the detection model answers.
cm_call_model(d, sm, cm, detected, query_type, reply, generated, metric, fail) ==
    cm_call_model_detected(d, sm, cm, detect_language(detected), query_type, reply,
                           generated, metric, fail)

\* ChatManager.summarize_and_save_note: ResponseHandler.summarize_note reads
\* the summarize_note_prompt, then the summary of the model is saved.
summarize_and_save_note(d, sm, summary, fail) ==
    IF get_prompt("summarize_note_prompt").exc # "none"
    THEN [db |-> d, state |-> sm, exc |-> "KeyError"]
    ELSE IF summary = "error" THEN [db |-> d, state |-> sm, exc |-> "ModelError"]
    ELSE sm_update_permanent_memory(d, sm, summary, fail)

\* ------------------------------------------------------- history (ghost)

\* The history after a step from store d to store d2: the turns no longer
\* stored are dropped, the turn add_message wrote is appended, with the session
\* that was active when it was written.
HistStep(h, d, d2, active) ==
    LET kept == SelectSeq(h, LAMBDA t : \E r \in d2.memory : r.id = t.id)
    IN  IF d2.memory_seq > d.memory_seq
        THEN LET r == CHOOSE r \in d2.memory : r.id = d2.memory_seq
             IN  Append(kept, [id |-> r.id, session_id |-> r.session_id,
                               user_input |-> r.user_input,
                               model_response |-> r.model_response,
                               active |-> active])
        ELSE kept

\* The turns written for a session, oldest first, as (user_input, model_response).
TurnsOf(h, session_id) ==
    LET own == SelectSeq(h, LAMBDA t : t.session_id = session_id)
    IN  [i \in 1..Len(own) |-> <<own[i].user_input, own[i].model_response>>]

\* The last n elements of a sequence (all of it when it is shorter).
LastN(s, n) == SubSeq(s, Len(s) - Min(n, Len(s)) + 1, Len(s))

\* ------------------------------------------------- store specification

NoChatService == [session_id |-> None]

NoState == [session_id |-> None, language_mode |-> "auto", permanent_memory |-> "",
            current_prompt |-> ""]

NoChatManager == [session_memory_texts |-> <<>>, memory_index |-> 0]

\* SulphiteApp.__init__ sets running to False; run() is not entered.
NoApp == [running |-> FALSE, pc |-> "init", exit |-> <<>>]

InitDb ==
    /\ db = create_tables
    /\ chat_service = NoChatService
    /\ state = NoState
    /\ chat_manager = NoChatManager
    /\ app = NoApp
    /\ last = [op |-> "init"]
    /\ hist = <<>>

DbCreateSession(name, fail) ==
    /\ \E r \in {create_session(db, name, fail)} :
           /\ r.db.sessions_seq <= DbMaxSessions
           /\ db' = r.db
           /\ last' = [op |-> "create_session", name |-> name, exc |-> r.exc,
                       ret |-> r.ret, existing |-> get_session(db, name)]
    /\ UNCHANGED <<chat_service, state, chat_manager, app, hist>>

DbGetSession(name) ==
    /\ last' = [op |-> "get_session", name |-> name, exc |-> "none",
                ret |-> get_session(db, name)]
    /\ UNCHANGED <<db, chat_service, state, chat_manager, app, hist>>

DbAddMessage(session_id, user_input, model_response, fail) ==
    /\ db.memory_seq < DbMaxTurns
    /\ LET r == add_message(db, session_id, user_input, model_response, fail)
       IN  /\ db' = r.db
           /\ last' = [op |-> "add_message", session_id |-> session_id, exc |-> r.exc]
           /\ hist' = HistStep(hist, db, r.db, session_id)
    /\ UNCHANGED <<chat_service, state, chat_manager, app>>

DbGetMemory(session_id, limit) ==
    /\ last' = [op |-> "get_memory", session_id |-> session_id, limit |-> limit,
                exc |-> "none", ret |-> get_memory(db, session_id, limit)]
    /\ UNCHANGED <<db, chat_service, state, chat_manager, app, hist>>

DbClearMemory(session_id, fail) ==
    /\ LET r == clear_memory(db, session_id, fail)
       IN  /\ db' = r.db
           /\ last' = [op |-> "clear_memory", session_id |-> session_id, exc |-> r.exc,
                       removed |-> Cardinality(db.memory \ r.db.memory)]
           /\ hist' = HistStep(hist, db, r.db, None)
    /\ UNCHANGED <<chat_service, state, chat_manager, app>>

DbDeleteSession(session_id, fail) ==
    /\ LET r == delete_session(db, session_id, fail)
       IN  /\ db' = r.db
           /\ last' = [op |-> "delete_session", session_id |-> session_id,
                       exc |-> r.exc, existing |-> {s \in db.sessions : s.id = session_id},
                       removed |-> Cardinality(db.memory \ r.db.memory)]
           /\ hist' = HistStep(hist, db, r.db, None)
    /\ UNCHANGED <<chat_service, state, chat_manager, app>>

NextDb ==
    \/ \E name \in DbNames, fail \in BOOLEAN : DbCreateSession(name, fail)
    \/ \E name \in DbNames : DbGetSession(name)
    \/ \E s \in SessionIds, u \in Messages, r \in Responses, fail \in BOOLEAN :
           DbAddMessage(s, u, r, fail)
    \/ \E s \in SessionIds, limit \in Limits : DbGetMemory(s, limit)
    \/ \E s \in SessionIds, fail \in BOOLEAN : DbClearMemory(s, fail)
    \/ \E s \in SessionIds, fail \in BOOLEAN : DbDeleteSession(s, fail)

SpecDb == InitDb /\ [][NextDb]_vars

\* ------------------------------------------ state manager specification

\* Notes a caller may write; the empty note included.
Notes == {"", "likes examples", "prefers proofs"}

\* Language modes and prompts a caller may set.
Modes == {"auto", "English", "URDU"}

\* The methods of the notes table that raise in a call.
NoteFaults == SUBSET {"get_permanent_memory", "update_permanent_memory"}

\* After Database() on a new file and StateManager(db).
InitState ==
    LET r == StateManager(create_tables, {})
    IN  /\ db = r.db
        /\ state = r.state
        /\ chat_service = NoChatService
        /\ chat_manager = NoChatManager
        /\ app = NoApp
        /\ last = [op |-> "init"]
        /\ hist = <<>>

SmNewSession(name, fail) ==
    /\ \E r \in {new_session(db, state, name, fail)} :
           /\ db' = r.db
           /\ state' = r.state
           /\ last' = [op |-> "new_session", name |-> name, exc |-> r.exc, ret |-> r.ret,
                       existing |-> get_session(db, name)]
    /\ UNCHANGED <<chat_service, chat_manager, app, hist>>

SmUpdatePermanentMemory(new_notes, fail) ==
    /\ \E r \in {sm_update_permanent_memory(db, state, new_notes, fail)} :
           /\ db' = r.db
           /\ state' = r.state
           /\ last' = [op |-> "update_permanent_memory", new_notes |-> new_notes,
                       previous |-> state.permanent_memory, exc |-> r.exc]
    /\ UNCHANGED <<chat_service, chat_manager, app, hist>>

SmSetLanguageMode(mode) ==
    /\ state' = set_language_mode(state, mode)
    /\ last' = [op |-> "set_language_mode", mode |-> mode, exc |-> "none"]
    /\ UNCHANGED <<db, chat_service, chat_manager, app, hist>>

SmSetCurrentPrompt(prompt) ==
    /\ state' = set_current_prompt(state, prompt)
    /\ last' = [op |-> "set_current_prompt", prompt |-> prompt, exc |-> "none"]
    /\ UNCHANGED <<db, chat_service, chat_manager, app, hist>>

\* state = StateManager(db) on the same database file, as a new start of the
\* process makes it; a construction that raises assigns nothing.
SmRestart(fail) ==
    /\ \E r \in {StateManager(db, fail)} :
           /\ db' = r.db
           /\ state' = IF r.exc = "none" THEN r.state ELSE state
           /\ last' = [op |-> "StateManager", exc |-> r.exc]
    /\ UNCHANGED <<chat_service, chat_manager, app, hist>>

\* StateManager.load_permanent_memory called again on the same StateManager.
SmLoadPermanentMemory(fail) ==
    /\ \E r \in {load_permanent_memory(db, state, fail)} :
           /\ db' = r.db
           /\ state' = r.state
           /\ last' = [op |-> "load_permanent_memory", exc |-> r.exc]
    /\ UNCHANGED <<chat_service, chat_manager, app, hist>>

NextState ==
    \/ \E name \in Names, fail \in SUBSET {"get_session", "create_session"} :
           SmNewSession(name, fail)
    \/ \E fail \in NoteFaults : SmLoadPermanentMemory(fail)
    \/ \E new_notes \in Notes, fail \in NoteFaults :
           SmUpdatePermanentMemory(new_notes, fail)
    \/ \E mode \in Modes : SmSetLanguageMode(mode)
    \/ \E prompt \in Messages : SmSetCurrentPrompt(prompt)
    \/ \E fail \in NoteFaults : SmRestart(fail)

SpecState == InitState /\ [][NextState]_vars

\* ----------------------------------------- session creation specification

\* After Database() on a new file, ChatService(db) and StateManager(db).
InitSessions ==
    LET r == StateManager(create_tables, {})
    IN  /\ db = r.db
        /\ state = r.state
        /\ chat_service = NoChatService
        /\ chat_manager = NoChatManager
        /\ app = NoApp
        /\ last = [op |-> "init"]
        /\ hist = <<>>

CsStartNewSession(name, fail) ==
    /\ \E r \in {start_new_session(db, chat_service, name, fail)} :
           /\ db' = r.db
           /\ chat_service' = r.chat_service
           /\ last' = [op |-> "start_new_session", name |-> name, exc |-> r.exc,
                       ret |-> r.ret, existing |-> get_session(db, name)]
    /\ UNCHANGED <<state, chat_manager, app, hist>>

\* The three operations that create sessions, in any order.
NextSessions ==
    \/ \E name \in Names, fail \in BOOLEAN : DbCreateSession(name, fail)
    \/ \E name \in Names, fail \in SUBSET {"get_session", "create_session"} :
           CsStartNewSession(name, fail)
    \/ \E name \in Names, fail \in SUBSET {"get_session", "create_session"} :
           SmNewSession(name, fail)

SpecSessions == InitSessions /\ [][NextSessions]_vars

\* -------------------------------------------- classifier specification

\* What a reply is written from: text is what stands in the reply, val the
\* JSON value that text is the JSON text of (NotJson when it is of none).
Written(text, val) == [text |-> text, val |-> val]

NotJson == JsonVal("none", "none")

\* The string literal of a text that needs no escape.
Quoted(text) == <<Ord["\""]>> \o text \o <<Ord["\""]>>

\* A word as a string literal.
Word(w) == Written(Quoted(Chars(w)), Str(w))

\* Keys and values of the objects a classification reply may hold.
ReplyKeys == {Word("classification"), Word("main_topic")}

ReplyValues ==
    {Word(w) : w \in {"general", "practical", "theoretical", "irrelevant", "General",
                      "Arithmetic"}}
    \cup {Written(Chars("null"), JsonVal("null", "null")),
          Written(Code(<<"1">>), JsonVal("int", Code(<<"1">>)))}

RECURSIVE MembersText(_)
\* The text of the members of an object: "key": value, "key": value ...
MembersText(fs) ==
    IF fs = <<>> THEN <<>>
    ELSE fs[1][1].text \o Code(<<":", " ">>) \o fs[1][2].text
         \o (IF Len(fs) > 1 THEN Code(<<",", " ">>) ELSE <<>>)
         \o MembersText(Tail(fs))

\* The dict the members are written from: each key with the value of the last
\* member of that key.
MembersVal(fs) ==
    {<<fs[i][1].val.v, fs[i][2].val>> :
         i \in {i \in 1..Len(fs) : \A j \in (i + 1)..Len(fs) : fs[j][1].val # fs[i][1].val}}

\* An object of the members fs (pairs of a key and a value), and an array of
\* the values vs; neither is JSON when a value is not.
Object(fs) ==
    Written(Code(<<"{">>) \o MembersText(fs) \o Code(<<"}">>),
            IF \E i \in 1..Len(fs) : fs[i][2].val = NotJson THEN NotJson
            ELSE JsonVal("dict", MembersVal(fs)))

RECURSIVE ElementsText(_)
ElementsText(vs) ==
    IF vs = <<>> THEN <<>>
    ELSE vs[1].text \o (IF Len(vs) > 1 THEN Code(<<",", " ">>) ELSE <<>>)
         \o ElementsText(Tail(vs))

Array(vs) ==
    Written(Code(<<"[">>) \o ElementsText(vs) \o Code(<<"]">>),
            IF \E i \in 1..Len(vs) : vs[i].val = NotJson THEN NotJson
            ELSE JsonVal("list", [i \in 1..Len(vs) |-> vs[i].val]))

\* {"classification": "general"} and one more member.
General(fs) == Object(<<<<Word("classification"), Word("general")>>>> \o fs)

\* A string literal that holds three grave accents.
QuotedFence == Written(Quoted(Code(<<"x">>) \o Fence), JsonVal("str", Code(<<"x">>) \o Fence))

\* Integers of n digits.
Ones(n) == [i \in 1..n |-> Ord["1"]]

\* String literals with escapes and characters beyond ASCII: e, a line
\* feed and a quote escaped, U+00E9 escaped and written as it is, U+00E8
\* escaped, a surrogate pair, a high surrogate alone, a high surrogate before
\* an escape that is no low surrogate, and a raw tab, which no string may hold.
Escaped ==
    [e |-> Written(Code(<<"\"", "g", "e", "n", "\\", "u", "0", "0", "6", "5", "r", "a", "l",
                          "\"">>), Str("general")),
     feed |-> Written(Code(<<"\"", "x", "\\", "n", "\\", "\"", "\"">>),
                      JsonVal("str", Code(<<"x", "\n", "\"">>))),
     acute |-> Written(Code(<<"\"", "\\", "u", "0", "0", "e", "9", "\"">>),
                       JsonVal("str", <<233>>)),
     raw |-> Written(Quoted(<<233>>), JsonVal("str", <<233>>)),
     grave |-> Written(Code(<<"\"", "\\", "u", "0", "0", "E", "8", "\"">>),
                       JsonVal("str", <<232>>)),
     pair |-> Written(Code(<<"\"", "\\", "u", "d", "8", "3", "d", "\\", "u", "d", "e", "0",
                             "0", "\"">>), JsonVal("str", <<128512>>)),
     high |-> Written(Code(<<"\"", "\\", "u", "d", "8", "3", "d", "\"">>),
                      JsonVal("str", <<55357>>)),
     highE |-> Written(Code(<<"\"", "\\", "u", "d", "8", "3", "d", "\\", "u", "0", "0", "6",
                              "5", "\"">>), JsonVal("str", <<55357, 101>>)),
     tab |-> Written(Code(<<"\"", "x", "\t", "\"">>), NotJson)]

\* Numbers: a float, a negative integer, minus zero (the int 0), an integer
\* with a leading zero (none), integers of IntMaxStrDigits digits and of one
\* more, for which int() raises.
Numbers ==
    [float |-> Written(Code(<<"-", "1", ".", "5", "e", "+", "2">>),
                       JsonVal("float", Code(<<"-", "1", ".", "5", "e", "+", "2">>))),
     negative |-> Written(Code(<<"-", "1", "2">>), JsonVal("int", Code(<<"-", "1", "2">>))),
     zero |-> Written(Code(<<"-", "0">>), JsonVal("int", Code(<<"0">>))),
     leading |-> Written(Code(<<"0", "1">>), NotJson),
     longest |-> Written(Ones(IntMaxStrDigits), JsonVal("int", Ones(IntMaxStrDigits))),
     overlong |-> Written(Ones(IntMaxStrDigits + 1), NotJson)]

\* Reply bodies: objects of up to MaxFields members, arrays and scalars; plain
\* text, an object cut short, text before an object, the empty text, an
\* object with a form feed inside; objects with a nested array and a nested
\* object, a nested array, an object whose classification is an array;
\* objects with the strings of Escaped as values and as keys (two keys that
\* differ, two that are one); objects with the numbers of Numbers, and an
\* over-long integer before a syntax error and after one.
ReplyBodies ==
    {Object(fs) : fs \in UNION {[1..n -> ReplyKeys \X ReplyValues] : n \in 0..MaxFields}}
    \cup {Array(<<v>>) : v \in ReplyValues}
    \cup ReplyValues
    \cup {Written(Chars("Sure practical"), NotJson),
          Written(SubSeq(General(<<>>).text, 1, Len(General(<<>>).text) - 1), NotJson),
          Written(Chars("Result: ") \o General(<<>>).text, NotJson),
          Written(<<>>, NotJson),
          Written(Code(<<"{", "\f">>) \o MembersText(<<<<Word("classification"),
                                                         Word("general")>>>>)
                      \o Code(<<"}">>), NotJson),
          General(<<<<Word("sub_topic"), Array(<<Word("Integers")>>)>>>>),
          General(<<<<Word("topics"),
                      Object(<<<<Word("main_topic"), Word("Arithmetic")>>>>)>>>>),
          Array(<<Array(<<Word("general")>>)>>),
          Object(<<<<Word("classification"), Array(<<Word("general")>>)>>>>),
          Object(<<<<Word("classification"), Escaped.e>>>>),
          Object(<<<<Escaped.e, Word("general")>>>>),
          General(<<<<Word("main_topic"), QuotedFence>>>>),
          General(<<<<Escaped.acute, Numbers.negative>>, <<Escaped.grave, Numbers.zero>>>>),
          General(<<<<Escaped.acute, Numbers.negative>>, <<Escaped.raw, Numbers.zero>>>>),
          Written(General(<<<<Word("main_topic"), Numbers.overlong>>>>).text
                      \o Code(<<"]">>), NotJson),
          Array(<<Numbers.leading, Numbers.overlong>>)}
    \cup {General(<<<<Word("main_topic"), v>>>>) :
              v \in {Escaped[k] : k \in DOMAIN Escaped} \cup {Numbers[k] : k \in DOMAIN Numbers}}

\* What precedes the body: nothing or white space; the json fence with and
\* without white space around it; the bare fence.
PlainPrefixes == {<<>>, Code(<<" ">>), Code(<<"\f">>)}

JsonFencePrefixes == {FenceJson \o Code(<<"\n">>), FenceJson, Code(<<" ">>) \o FenceJson}

ReplyPrefixes == PlainPrefixes \cup JsonFencePrefixes \cup {Fence \o Code(<<"\n">>)}

\* What follows the body: nothing or white space; a closing fence, with a
\* no-break space after it; a closing fence of four grave accents, a closing
\* fence and a string literal that holds three more.
BlankSuffixes == {<<>>, Code(<<"\n">>)}

ClosingSuffixes == {Code(<<"\n">>) \o Fence, Fence \o <<160>>}

ReplySuffixes ==
    BlankSuffixes \cup ClosingSuffixes
    \cup {Code(<<"\n">>) \o Fence \o <<BQ>>,
          Code(<<"\n">>) \o Fence \o Code(<<" ">>) \o QuotedFence.text}

\* The body is what the reply holds: it stands alone, or in a json fence that
\* is closed, with white space around it at most.
Kept(prefix, suffix) ==
    \/ prefix \in PlainPrefixes /\ suffix \in BlankSuffixes
    \/ prefix \in JsonFencePrefixes /\ suffix \in ClosingSuffixes

\* What the classification model may answer: a text, or an exception.
ModelError == [exc |-> TRUE, content |-> <<>>]

\* The replies with what they were written from: the value of the body, and
\* whether the reply holds it.
WrittenReplies ==
    {[reply |-> [exc |-> FALSE, content |-> p \o b.text \o x],
      made |-> [val |-> b.val, kept |-> Kept(p, x)]] :
         p \in ReplyPrefixes, b \in ReplyBodies, x \in ReplySuffixes}
    \cup {[reply |-> ModelError, made |-> [val |-> NotJson, kept |-> FALSE]]}

ClassifierReplies == {w.reply : w \in WrittenReplies}

\* The result the claim allows for a reply: the object it was written from
\* when the reply holds it and its classification is one of the four
\* categories, the empty result for any other reply.
Expected(made) ==
    IF /\ made.kept
       /\ made.val.t = "dict"
       /\ DictGet(made.val.v, Chars("classification"), Str("")) \in {Str(c) : c \in Categories}
    THEN made.val.v
    ELSE EmptyResult

InitClassify ==
    /\ db = create_tables
    /\ chat_service = NoChatService
    /\ state = NoState
    /\ chat_manager = NoChatManager
    /\ app = NoApp
    /\ \E w \in WrittenReplies : last = [op |-> "reply", reply |-> w.reply, made |-> w.made]
    /\ hist = <<>>

\* Classifier.classify on the reply the model gave.
Classify ==
    /\ last.op = "reply"
    /\ last' = [op |-> "classify", reply |-> last.reply, made |-> last.made,
                ret |-> classify(last.reply)]
    /\ UNCHANGED <<db, chat_service, state, chat_manager, app, hist>>

\* _select_system_prompt on the result of classify, as both call_model do:
\* ret is the key ChatService selects, cm what ChatManager reads for it.
SelectSystemPrompt ==
    /\ last.op = "classify"
    /\ last' = [op |-> "select_system_prompt", classification_result |-> last.ret,
                ret |-> select_system_prompt(last.ret),
                cm |-> cm_select_system_prompt(last.ret)]
    /\ UNCHANGED <<db, chat_service, state, chat_manager, app, hist>>

NextClassify == Classify \/ SelectSystemPrompt

SpecClassify == InitClassify /\ [][NextClassify]_vars

\* ------------------------------------------- application specification

\* Lines the user may type (stripped, not empty), as their words.
UserInputs ==
    {<<"/quit">>, <<"/help">>, <<"/show_info">>, <<"/foo">>, <<"/clear">>,
     <<"/new">>, <<"/new", "algebra">>, <<"/NEW", "algebra">>, <<"/chat">>}
    \cup {<<"/chat", "q1">>, <<"q2">>}

\* Replies of the classification model in the application: a failure, a valid
\* classification in a fence, a text that is no JSON.
AppReplies ==
    {ModelError,
     [exc |-> FALSE,
      content |-> FenceJson \o Code(<<"\n">>)
                  \o Object(<<<<Word("classification"), Word("practical")>>>>).text
                  \o Code(<<"\n">>) \o Fence],
     [exc |-> FALSE, content |-> Chars("Sure practical")]}

\* After SulphiteApp.__init__ on a new database file (the default session is
\* started) and the entry into run().
Init ==
    LET r == start_new_session(create_tables, NoChatService, "default", {})
    IN  /\ db = r.db
        /\ chat_service = r.chat_service
        /\ state = NoState
        /\ chat_manager = NoChatManager
        /\ app = [running |-> TRUE, pc |-> "loop", exit |-> <<>>]
        /\ last = [op |-> "init"]
        /\ hist = <<>>

\* One pass of the loop of run(): a line is read and process_command handles it.
Run(user_input, reply, generated, fail) ==
    /\ app.pc = "loop"
    /\ app.running
    /\ \E r \in {process_command(db, chat_service, user_input, reply, generated, fail)} :
           /\ db' = r.db
           /\ chat_service' = r.chat_service
           /\ app' = [app EXCEPT !.running = r.ret,
                                   !.pc = IF r.ret THEN "loop" ELSE "done"]
           /\ last' = [op |-> "process_command", handler |-> Handler(user_input),
                       text |-> Join(IF StartsWithSlash(user_input)
                                     THEN Tail(user_input) ELSE user_input),
                       active |-> chat_service.session_id,
                       reply |-> reply, generated |-> generated,
                       ret |-> r.ret, exc |-> r.exc, out |-> r.out, calls |-> r.calls,
                       rows |-> r.rows, prompt |-> r.prompt,
                       removed |-> Cardinality(db.memory \ r.db.memory),
                       raised |-> {c \in fail : \E i \in 1..Len(r.calls) : r.calls[i] = c}]
           /\ hist' = HistStep(hist, db, r.db, chat_service.session_id)
    /\ UNCHANGED <<state, chat_manager>>

\* input() raises EOFError: run() leaves the loop, running is not assigned.
EndOfInput ==
    /\ app.pc = "loop"
    /\ app' = [app EXCEPT !.pc = "done"]
    /\ last' = [op |-> "EOFError", exc |-> "none"]
    /\ UNCHANGED <<db, chat_service, state, chat_manager, hist>>

\* Ctrl+C at the prompt: input() raises KeyboardInterrupt, run() leaves the loop.
Interrupt ==
    /\ app.pc = "loop"
    /\ app' = [app EXCEPT !.pc = "done"]
    /\ last' = [op |-> "KeyboardInterrupt", exc |-> "none"]
    /\ UNCHANGED <<db, chat_service, state, chat_manager, hist>>

\* input() raises another exception (the bytes read are no text, the stream
\* is closed): the handler around the loop of run() reports it and run() ends.
InputError ==
    /\ app.pc = "loop"
    /\ app' = [app EXCEPT !.pc = "done"]
    /\ last' = [op |-> "Exception", exc |-> "none"]
    /\ UNCHANGED <<db, chat_service, state, chat_manager, hist>>

\* main(): the code the process exits with. startup: how SulphiteApp() and
\* app.run() ended ("returned", "KeyboardInterrupt" or "Exception").
main(startup) == IF startup = "Exception" THEN 1 ELSE 0

\* run() has returned to main(), which exits.
MainExit ==
    /\ app.pc = "done"
    /\ app.exit = <<>>
    /\ app' = [app EXCEPT !.exit = <<main("returned")>>]
    /\ UNCHANGED <<db, chat_service, state, chat_manager, last, hist>>

InputsOf(inputs, handler) == {u \in inputs : Handler(u) = handler}

\* Outcomes of the generation model: a response, or "error" when it raises.
Generated == Responses \cup {"error"}

CmdQuit(inputs) == \E u \in InputsOf(inputs, "/quit") : Run(u, ModelError, "error", {})

CmdHelp(inputs) == \E u \in InputsOf(inputs, "/help") : Run(u, ModelError, "error", {})

CmdShowInfo(inputs) ==
    \E u \in InputsOf(inputs, "/show_info") : Run(u, ModelError, "error", {})

CmdUnknown(inputs) ==
    \E u \in InputsOf(inputs, "unknown") : Run(u, ModelError, "error", {})

CmdNew(inputs, faults) ==
    \E u \in InputsOf(inputs, "/new"),
       fail \in SUBSET (faults \cap {"get_session", "create_session"}) :
        Run(u, ModelError, "error", fail)

CmdClear(inputs, faults) ==
    \E u \in InputsOf(inputs, "/clear"), fail \in SUBSET (faults \cap {"clear_memory"}) :
        Run(u, ModelError, "error", fail)

CmdChat(inputs, replies, generated, faults, turns) ==
    \E u \in InputsOf(inputs, "/chat"), reply \in replies, g \in generated,
       fail \in SUBSET (faults \cap {"get_memory", "add_message"}) :
        /\ db.memory_seq < turns
        /\ Run(u, reply, g, fail)

DirectMessage(inputs, replies, generated, faults, turns) ==
    \E u \in InputsOf(inputs, "direct"), reply \in replies, g \in generated,
       fail \in SUBSET (faults \cap {"get_memory", "add_message"}) :
        /\ db.memory_seq < turns
        /\ Run(u, reply, g, fail)

\* Every Database method ChatService calls.
StorageFaults == {"get_session", "create_session", "get_memory", "add_message",
                  "clear_memory"}

\* The application: any line of input, and any call of the store or of a model
\* may fail.
Next ==
    \/ CmdQuit(UserInputs)
    \/ CmdHelp(UserInputs)
    \/ CmdShowInfo(UserInputs)
    \/ CmdUnknown(UserInputs)
    \/ CmdNew(UserInputs, StorageFaults)
    \/ CmdClear(UserInputs, StorageFaults)
    \/ CmdChat(UserInputs, AppReplies, Generated, StorageFaults, MaxTurns)
    \/ DirectMessage(UserInputs, AppReplies, Generated, StorageFaults, MaxTurns)
    \/ EndOfInput
    \/ Interrupt
    \/ InputError
    \/ MainExit

Spec == Init /\ [][Next]_vars

\* Long conversations: the same lines with one message text, the store and the
\* models answering.
LongInputs == {u \in UserInputs : u[Len(u)] # "q2"} \cup {<<"q1">>}

NextLong ==
    \/ CmdQuit(LongInputs)
    \/ CmdHelp(LongInputs)
    \/ CmdShowInfo(LongInputs)
    \/ CmdUnknown(LongInputs)
    \/ CmdNew(LongInputs, {})
    \/ CmdClear(LongInputs, {})
    \/ CmdChat(LongInputs, {ModelError}, Responses, {}, LongMaxTurns)
    \/ DirectMessage(LongInputs, {ModelError}, Responses, {}, LongMaxTurns)
    \/ EndOfInput
    \/ Interrupt

SpecLong == Init /\ [][NextLong]_vars

\* ------------------------------------------- chat manager specification

\* Cap on the memory counter in the chat manager specification.
MgrMaxTurns == 2

\* Prompts the caller sets, responses the generation model gives (one of them
\* a question).
MgrPrompts == {"q1"}

MgrResponses == {"a1", "a2?"}

\* Distances of the stored fragments to a query: two orders of the texts by
\* ascending distance.
Metrics ==
    {<<"User asked: q1", "AI answered: a1", "User asked: ", "AI answered: a2?",
       "User asked: q2">>,
     <<"AI answered: a2?", "User asked: q2", "AI answered: a1",
       "User asked: ", "User asked: q1">>}

\* The values of k a caller passes: call_model passes none, so the default.
Ks == {DefaultK}

\* After Database() on a new file, StateManager(db) and ChatManager(db, state).
InitManager ==
    LET r == StateManager(create_tables, {})
        m == initialize_session_memory(r.db, r.state, {})
    IN  /\ db = r.db
        /\ state = r.state
        /\ chat_manager = m.chat_manager
        /\ chat_service = NoChatService
        /\ app = NoApp
        /\ last = [op |-> "init"]
        /\ hist = <<>>

\* ChatManager.call_model on the prompt the state manager holds.
CmCallModel(detected, query_type, reply, generated, metric, fail) ==
    /\ db.memory_seq < MgrMaxTurns
    /\ \E r \in {cm_call_model(db, state, chat_manager, detected, query_type, reply,
                               generated, metric, fail)} :
           /\ db' = r.db
           /\ chat_manager' = r.chat_manager
           /\ last' = [op |-> "call_model", prompt |-> state.current_prompt,
                       active |-> state.session_id, detected |-> detected,
                       detected_lang |-> detect_language(detected),
                       generated |-> generated, exc |-> r.exc, ret |-> r.ret,
                       calls |-> r.calls, system_prompt |-> r.system_prompt,
                       stored |-> r.db.memory \ db.memory,
                       added |-> Len(r.chat_manager.session_memory_texts)
                                     - Len(chat_manager.session_memory_texts),
                       raised |-> {c \in fail : c = "encode" /\ r.exc = "EncodeError"
                                                /\ Len(r.calls) = 5}]
           /\ hist' = HistStep(hist, db, r.db, state.session_id)
    /\ UNCHANGED <<chat_service, state, app>>

\* ChatManager._get_conversation_context(query, k)
CmGetConversationContext(metric, k) ==
    /\ \E r \in {cm_get_conversation_context(chat_manager, metric, k)} :
           last' = [op |-> "get_conversation_context", metric |-> metric, k |-> k,
                    exc |-> "none", ret |-> r.ret, I |-> r.I, snippets |-> r.snippets]
    /\ UNCHANGED <<db, chat_service, state, chat_manager, app, hist>>

\* ChatManager.initialize_session_memory called again.
CmInitializeSessionMemory(fail) ==
    /\ \E r \in {initialize_session_memory(db, state, fail)} :
           /\ chat_manager' = r.chat_manager
           /\ last' = [op |-> "initialize_session_memory", exc |-> r.exc]
    /\ UNCHANGED <<db, chat_service, state, app, hist>>

\* ChatManager.summarize_and_save_note
CmSummarizeAndSaveNote(summary, fail) ==
    /\ \E r \in {summarize_and_save_note(db, state, summary, fail)} :
           /\ db' = r.db
           /\ state' = r.state
           /\ last' = [op |-> "summarize_and_save_note", exc |-> r.exc]
    /\ UNCHANGED <<chat_service, chat_manager, app, hist>>

NextManager ==
    \/ \E name \in Names : SmNewSession(name, {})
    \/ \E prompt \in MgrPrompts : SmSetCurrentPrompt(prompt)
    \/ \E detected \in {"error"}, query_type \in {"follow_up"},
          reply \in {ModelError}, generated \in MgrResponses \cup {"error"},
          metric \in Metrics,
          fail \in {{}, {"get_memory"}, {"add_message"}, {"encode"}, {"encode_query"}} :
           CmCallModel(detected, query_type, reply, generated, metric, fail)
    \/ \E metric \in Metrics, k \in Ks : CmGetConversationContext(metric, k)
    \/ \E fail \in {{}, {"get_memory"}, {"encode"}} : CmInitializeSessionMemory(fail)
    \/ \E s \in SessionIds : DbClearMemory(s, FALSE)
    \/ \E summary \in {"likes examples", "error"},
          fail \in {{}, {"update_permanent_memory"}} :
           CmSummarizeAndSaveNote(summary, fail)

SpecManager == InitManager /\ [][NextManager]_vars

\* The language gate and the identity question: the caller sets a language
\* mode and a prompt, and call_model answers; the detection model names the
\* language of the prompt, or raises.
GatePrompts == {"q1", "Who are you now", "what is your name"}

GateMetric == <<"User asked: q1", "AI answered: a1", "User asked: ">>

NextGate ==
    \/ \E mode \in Modes : SmSetLanguageMode(mode)
    \/ \E prompt \in GatePrompts : SmSetCurrentPrompt(prompt)
    \/ \E detected \in {"English", "urdu", "error"}, reply \in AppReplies,
          generated \in Generated, fail \in {{}, {"add_message"}} :
           CmCallModel(detected, "follow_up", reply, generated, GateMetric, fail)

SpecGate == InitManager /\ [][NextGate]_vars

\* ----------------------------------------------- both call_model on a store

\* After Database() on a new file: the application with its ChatService in
\* the loop, and StateManager(db) and ChatManager(db, state) on the same
\* store.
InitCalls ==
    LET r == start_new_session(create_tables, NoChatService, "default", {})
        s == StateManager(r.db, {})
        m == initialize_session_memory(s.db, s.state, {})
    IN  /\ db = s.db
        /\ chat_service = r.chat_service
        /\ state = s.state
        /\ chat_manager = m.chat_manager
        /\ app = [running |-> TRUE, pc |-> "loop", exit |-> <<>>]
        /\ last = [op |-> "init"]
        /\ hist = <<>>

NextCalls ==
    \/ CmdChat(UserInputs, AppReplies, Generated, StorageFaults, MaxTurns)
    \/ DirectMessage(UserInputs, AppReplies, Generated, StorageFaults, MaxTurns)
    \/ \E prompt \in GatePrompts : SmSetCurrentPrompt(prompt)
    \/ \E reply \in AppReplies, generated \in Generated,
          fail \in {{}, {"add_message"}} :
           CmCallModel("error", "follow_up", reply, generated, GateMetric, fail)

SpecCalls == InitCalls /\ [][NextCalls]_vars

\* ------------------------------------------------------------ properties

\* The turns of the history written for a session, oldest first.
HistOf(h, session_id) == SelectSeq(h, LAMBDA t : t.session_id = session_id)

\* The row ids of a sequence of rows.
Ids(rows) == [i \in 1..Len(rows) |-> rows[i].id]

\* The (user_input, model_response) pairs of a sequence of rows.
Turns(rows) == [i \in 1..Len(rows) |-> <<rows[i].user_input, rows[i].model_response>>]

\* The session that was active when the turn with this row id was stored.
ActiveWhenStored(h, id) == (CHOOSE t \in {h[i] : i \in 1..Len(h)} : t.id = id).active

\* The operations that create sessions.
CreationOps == {"create_session", "start_new_session", "new_session"}

\* No two session records share a name.
UniqueNames == \A a, b \in db.sessions : a.name = b.name => a = b

\* C1: no two session records share a name; start_new_session and new_session
\* with a name in use return the existing identifier and create no record;
\* create_session with a name in use raises IntegrityError and creates no
\* record (a failure of the storage engine aside).
C1_SessionNameUnique ==
    /\ [](UniqueNames)
    /\ [][(/\ last'.op \in CreationOps
           /\ get_session(db, last'.name) # None
           /\ last'.exc # "Error")
          => /\ db'.sessions = db.sessions
             /\ IF last'.op = "create_session"
                THEN last'.exc = "IntegrityError" /\ last'.ret = None
                ELSE last'.exc = "none" /\ last'.ret = get_session(db, last'.name)]_vars

\* C1 as stated: every one of the three operations returns the existing
\* identifier for a name in use.
C1_ReturnsExisting ==
    /\ [](UniqueNames)
    /\ [][(/\ last'.op \in CreationOps
           /\ get_session(db, last'.name) # None
           /\ last'.exc # "Error")
          => /\ db'.sessions = db.sessions
             /\ last'.ret = get_session(db, last'.name)]_vars

\* start_new_session was given the name of one of two sessions and returned
\* its identifier.
C1_Witness ==
    /\ last.op = "start_new_session"
    /\ last.existing # None
    /\ last.ret = last.existing
    /\ chat_service.session_id = last.existing
    /\ Cardinality(db.sessions) = 2

\* C2: get_memory returns the turns of the session oldest first, in the order
\* add_message wrote them: a run of consecutive turns of the session's history
\* that ends with its latest, by ascending row id.
C2_MemoryOldestFirst ==
    last.op = "get_memory" =>
        LET turns == TurnsOf(hist, last.session_id)
            rows == get_memory_rows(db, last.session_id, last.limit)
        IN  /\ \E k \in 0..Len(turns) : last.ret = SubSeq(turns, k + 1, Len(turns))
            /\ \A i, j \in 1..Len(rows) : i < j => rows[i].id < rows[j].id
            /\ last.ret = Turns(rows)

\* get_memory returned two different turns of a session while another session
\* held turns too.
C2_Witness ==
    /\ last.op = "get_memory"
    /\ Len(last.ret) = 2
    /\ last.ret[1] # last.ret[2]
    /\ \E r \in db.memory : r.session_id # last.session_id

\* C3: after /clear succeeds, get_memory returns no turn for the active
\* session under any limit, the session records are the ones there were, and
\* the active session is the same and has its record.
C3_ClearKeepsSession ==
    [][(/\ last'.op = "process_command"
        /\ last'.handler = "/clear"
        /\ last'.exc = "none")
       => /\ \A limit \in Limits \cup {DefaultLimit} :
                 get_memory(db', chat_service.session_id, limit) = <<>>
          /\ db'.sessions = db.sessions
          /\ chat_service' = chat_service
          /\ \E r \in db'.sessions : r.id = chat_service'.session_id]_vars

\* /clear removed turns of the active session while another session kept its own.
C3_Witness ==
    /\ last.op = "process_command"
    /\ last.handler = "/clear"
    /\ last.exc = "none"
    /\ last.removed > 0
    /\ db.memory # {}
    /\ \E r \in db.sessions : r.id = chat_service.session_id

\* C4: every stored turn carries the identifier of a session record.
C4_TurnsReferenceSession ==
    \A r \in db.memory : \E s \in db.sessions : s.id = r.session_id

\* C5: get_memory returns at most limit turns (none under a negative limit).
C5_BoundedByLimit ==
    last.op = "get_memory" =>
        Len(last.ret) <= (IF last.limit < 0 THEN 0 ELSE last.limit)

\* C6: for a limit N >= 0, get_memory returns the min(N, n) most recent of the
\* n turns of a session; the context of a message is made of the 5 most recent
\* turns the active session held when the message came.
C6_MostRecentWindow ==
    /\ \A s \in SessionIds, N \in 0..LongMaxTurns :
           LET own == HistOf(hist, s)
               rows == get_memory_rows(db, s, N)
           IN  /\ Len(rows) = Min(N, Len(own))
               /\ Ids(rows) = LastN(Ids(own), N)
               /\ get_memory(db, s, N) = LastN(TurnsOf(hist, s), N)
    /\ (last.op = "process_command" /\ last.handler \in {"/chat", "direct"}
        /\ last.calls # <<>>)
       => LET own == HistOf(hist, last.active)
              before == IF last.out # "" THEN SubSeq(own, 1, Len(own) - 1) ELSE own
          IN  /\ Ids(last.rows) = LastN(Ids(before), DefaultLimit)
              /\ last.prompt.history = JoinTurns(LastN(Turns(before), DefaultLimit))

\* A message came to a session holding more turns than the window: its
\* context was the 5 most recent, the oldest left out.
C6_Witness ==
    /\ last.op = "process_command"
    /\ last.handler \in {"/chat", "direct"}
    /\ Len(last.rows) = DefaultLimit
    /\ Len(HistOf(hist, last.active)) > DefaultLimit + 1
    /\ last.rows[1].id > HistOf(hist, last.active)[1].id

\* C7: a turn stored while one session was active is returned by get_memory
\* for that session only, and is in the context of a message only when the
\* message is sent in that session.
C7_SessionsIsolated ==
    /\ \A s \in SessionIds, limit \in Limits \cup {DefaultLimit} :
           LET rows == get_memory_rows(db, s, limit)
           IN  \A i \in 1..Len(rows) : ActiveWhenStored(hist, rows[i].id) = s
    /\ last.op = "process_command" =>
           \A i \in 1..Len(last.rows) :
               ActiveWhenStored(hist, last.rows[i].id) = last.active

\* A message was sent in a session with turns of its own in its context while
\* turns stored under another session were held.
C7_Witness ==
    /\ last.op = "process_command"
    /\ last.handler \in {"/chat", "direct"}
    /\ last.rows # <<>>
    /\ \E i \in 1..Len(hist) : hist[i].active # last.active

\* C8: classify returns the empty result or a result whose classification is
\* one of the four categories; a reply that is no JSON, no JSON object, lacks
\* the classification field or carries another value gives the empty result,
\* and a reply that holds an object with one of the four values gives that
\* object. What a reply is, is read from what it was written from.
C8_ClassificationRestricted ==
    last.op = "classify" =>
        /\ last.ret # EmptyResult =>
               \E p \in last.ret : /\ p[1] = Chars("classification")
                                   /\ p[2] \in {Str(c) : c \in Categories}
        /\ last.ret = Expected(last.made)

\* A reply written as an object with a valid category in a json fence was
\* classified and gave that object.
C8_Witness ==
    /\ last.op = "classify"
    /\ ~last.reply.exc
    /\ StartsWith(last.reply.content, FenceJson)
    /\ last.made.kept
    /\ last.ret # EmptyResult
    /\ last.ret = last.made.val.v

\* C9: the permanent note is one value: the notes table holds one row, the
\* note StateManager holds is the stored one, after update_permanent_memory
\* both are the argument of that call, and new_session changes neither.
C9_PermanentNoteSingle ==
    /\ [](/\ Len(db.notes) = 1
          /\ state.permanent_memory = get_permanent_memory(db)
          /\ last.op = "update_permanent_memory" =>
                 /\ db.notes = <<last.new_notes>>
                 /\ state.permanent_memory = last.new_notes)
    /\ [][last'.op = "new_session" =>
              /\ db'.notes = db.notes
              /\ state'.permanent_memory = state.permanent_memory]_vars

\* C10: no command removes a session record, and a successful /new leaves a
\* record under the name it was given (default when none).
C10_SessionsNeverRemoved ==
    [][/\ db.sessions \subseteq db'.sessions
       /\ (last'.op = "process_command" /\ last'.handler = "/new" /\ last'.exc = "none")
          => \E r \in db'.sessions :
                 /\ r.name = (IF last'.text = "" THEN "default" ELSE last'.text)
                 /\ r.id = last'.out
                 /\ r.id = chat_service'.session_id]_vars

\* With two sessions created, /clear ran and both records are still there.
C10_Witness ==
    /\ last.op = "process_command"
    /\ last.handler = "/clear"
    /\ last.exc = "none"
    /\ Cardinality(db.sessions) = 2

\* The steps of a message, in the order call_model takes them.
MessageSteps == <<"classify", "get_memory", "generate", "add_message">>

\* A line that is a message: a direct message, or /chat with a message.
IsMessage(l) ==
    /\ l.op = "process_command"
    /\ l.handler \in {"/chat", "direct"}
    /\ l.text # ""

\* C11: a message is handled in one pass of the loop, its steps in the order
\* classification, context retrieval, generation, storage write; an answered
\* message writes one turn (its text and the response, under the active
\* session) after the response was generated, and nothing else writes a turn.
C11_StepsInOrder ==
    [][/\ IsMessage(last') =>
              /\ \E n \in 0..Len(MessageSteps) : last'.calls = SubSeq(MessageSteps, 1, n)
              /\ (last'.exc = "none") = (last'.out # "")
              /\ IF last'.exc = "none"
                 THEN /\ last'.calls = MessageSteps
                      /\ db'.memory_seq = db.memory_seq + 1
                      /\ db'.memory = db.memory \cup
                             {[id |-> db'.memory_seq, session_id |-> chat_service.session_id,
                               user_input |-> last'.text, model_response |-> last'.out]}
                 ELSE /\ db'.memory = db.memory
                      /\ db'.memory_seq = db.memory_seq
       /\ ~IsMessage(last') => /\ db'.memory \subseteq db.memory
                               /\ db'.memory_seq = db.memory_seq]_vars

\* A second message was answered and stored after the first.
C11_Witness ==
    /\ IsMessage(last)
    /\ last.exc = "none"
    /\ last.calls = MessageSteps
    /\ Cardinality(db.memory) >= 2
    /\ \E r \in db.memory : /\ r.id = db.memory_seq
                            /\ r.user_input = last.text
                            /\ r.model_response = last.out

\* C12: every failure of the store during a ChatService operation is raised to
\* the caller of that operation.
C12_StorageFailuresRaised ==
    last.op = "process_command" => (last.raised # {} => last.exc = "Error")

\* C13: process_command returns False for /quit and True for every other
\* line, whatever its handling raised, and the loop goes on with that value;
\* the loop is left only after /quit, the end of input or an interrupt, and a
\* failure never leaves it.
C13_LoopNeverStopsOnFailure ==
    /\ last.op = "process_command" =>
           /\ last.ret = (last.handler # "/quit")
           /\ app.running = last.ret
           /\ app.pc = (IF last.ret THEN "loop" ELSE "done")
           /\ last.exc # "none" => app.running /\ app.pc = "loop"
    /\ app.pc = "done" =>
           \/ last.op = "process_command" /\ last.handler = "/quit"
           \/ last.op \in {"EOFError", "KeyboardInterrupt"}
    /\ app.pc # "done" => app.running /\ app.pc = "loop"

\* A message failed in the store after the response was generated, and the
\* loop is still at the prompt.
C13_Witness ==
    /\ IsMessage(last)
    /\ last.exc = "Error"
    /\ "add_message" \in last.raised
    /\ app.running
    /\ app.pc = "loop"

\* The classification call failed: the model raised, or json.loads raises on
\* its reply (no JSON, an integer of too many digits, a value nested too deep).
ClassificationFailed(reply) == reply.exc \/ ~JsonLoads(Unwrap(reply.content)).ok

\* C14: when the classification call fails, classify gives the empty result
\* and the message is still handled: the response is generated under the
\* general prompt and, when generation and the store succeed, the turn is
\* stored and no exception is raised.
C14_ClassificationFailureDegrades ==
    (IsMessage(last) /\ ClassificationFailed(last.reply)) =>
        /\ classify(last.reply) = EmptyResult
        /\ last.exc \in {"none", "ModelError", "Error"}
        /\ last.exc = "ModelError" => last.generated = "error"
        /\ last.exc = "Error" => "add_message" \in last.raised
        /\ SubSeq(last.calls, 1, 3) = <<"classify", "get_memory", "generate">>
        /\ last.prompt.system = "general_chitchat_prompt"
        /\ (last.generated # "error" /\ "add_message" \notin last.raised) =>
               /\ last.exc = "none"
               /\ last.out = last.generated
               /\ \E r \in db.memory : /\ r.id = db.memory_seq
                                       /\ r.session_id = last.active
                                       /\ r.user_input = last.text
                                       /\ r.model_response = last.out

\* The classification model raised and the message was answered and stored.
C14_Witness ==
    /\ IsMessage(last)
    /\ last.reply.exc
    /\ last.exc = "none"
    /\ last.out # ""
    /\ last.prompt.system = "general_chitchat_prompt"
    /\ \E r \in db.memory : r.id = db.memory_seq /\ r.user_input = last.text

\* The call reached the generation of the response.
Generates(l) == "generate" \in {l.calls[i] : i \in DOMAIN l.calls}

\* C15: when the generation call raises, call_model raises that exception to
\* its caller after classification and context retrieval, with no response,
\* and the store is what it was before the call. For ChatService.call_model,
\* _process_ai_interaction catches the exception, reports it and the loop
\* goes on; ChatManager.call_model raises it to its caller and leaves its
\* fragments as they were.
C15_GenerationFailureRaised ==
    [][/\ (IsMessage(last') /\ last'.generated = "error") =>
              /\ last'.exc = "ModelError"
              /\ last'.out = ""
              /\ last'.calls = <<"classify", "get_memory", "generate">>
              /\ db' = db
              /\ last'.ret
              /\ app'.running
              /\ app'.pc = "loop"
       /\ (/\ last'.op = "call_model"
           /\ last'.generated = "error"
           /\ Generates(last')) =>
              /\ last'.exc = "ModelError"
              /\ last'.ret = ""
              /\ last'.calls = <<"get_query_type", "context", "generate">>
              /\ db' = db
              /\ chat_manager' = chat_manager]_vars

\* C15 as stated: call_model, of ChatService and of ChatManager, does not
\* raise to its caller when the generation call raises.
C15_GenerationFailureCaught ==
    /\ (IsMessage(last) /\ last.generated = "error") => last.exc = "none"
    /\ (last.op = "call_model" /\ last.generated = "error" /\ Generates(last))
           => last.exc = "none"

\* The generation model raised in ChatManager.call_model on a store that
\* holds a turn ChatService.call_model stored; the turns are what they were.
C15_Witness ==
    /\ last.op = "call_model"
    /\ last.generated = "error"
    /\ Generates(last)
    /\ last.exc = "ModelError"
    /\ last.stored = {}
    /\ chat_manager.session_memory_texts = <<>>
    /\ db.memory # {}
    /\ Cardinality(db.memory) = db.memory_seq
    /\ app.running

\* C16: whenever the chat manager retrieves conversation context, its fragment
\* list is the two fragments (user, then assistant) of every stored turn of
\* the session the state manager holds, oldest first, and nothing else.
C16_FragmentsOfActiveSession ==
    last.op = "get_conversation_context"
        => chat_manager.session_memory_texts = TextsOf(TurnsOf(hist, state.session_id))

\* C17: with n >= 1 fragments stored, the context is made of min(k, n)
\* fragments: each a stored neighbour the search returned, none read twice.
C17_NearestOnceEach ==
    (last.op = "get_conversation_context" /\ Len(chat_manager.memory_index) >= 1)
        => /\ Len(last.snippets) = Min(last.k, Len(chat_manager.memory_index))
           /\ \A n \in 1..Len(last.I) : last.I[n] >= 0
           /\ \A n, m \in 1..Len(last.snippets) :
                  n # m => PyPosition(chat_manager.session_memory_texts, last.I[n])
                               # PyPosition(chat_manager.session_memory_texts, last.I[m])

\* C18: in every state the fragment list is as long as the index, and position
\* i of the list is the text vector i of the index embeds.
C18_ListMatchesIndex ==
    /\ Len(chat_manager.session_memory_texts) = Len(chat_manager.memory_index)
    /\ \A i \in 1..Len(chat_manager.memory_index) :
           chat_manager.memory_index[i].vec = chat_manager.session_memory_texts[i]

\* C19: _get_conversation_context returns the placeholder exactly when no
\* fragment is stored (the list is empty or the index holds no vector), and
\* never the empty string.
C19_PlaceholderIffNoFragment ==
    last.op = "get_conversation_context"
        => /\ last.ret = placeholder
                  <=> \/ chat_manager.session_memory_texts = <<>>
                      \/ Len(chat_manager.memory_index) = 0
           /\ last.ret # ""

\* The context is retrieved with fragments in the list and none in the index
\* (their embedding failed): the placeholder is returned.
C19_Witness ==
    /\ last.op = "get_conversation_context"
    /\ chat_manager.session_memory_texts # <<>>
    /\ Len(chat_manager.memory_index) = 0
    /\ last.ret = placeholder

\* C20: every non-empty result of classify carries topics of the hierarchy:
\* main_topic is null or a main topic of topics_hierarchy, sub_topic is null or
\* listed under that main topic, and both are null when the classification is
\* general or irrelevant.
C20_TopicsFromHierarchy ==
    (last.op = "classify" /\ last.ret # EmptyResult)
        => LET null == JsonVal("null", "null")
               classification == DictGet(last.ret, Chars("classification"), null)
               main_topic == DictGet(last.ret, Chars("main_topic"), null)
               sub_topic == DictGet(last.ret, Chars("sub_topic"), null)
           IN  /\ \/ main_topic = null
                  \/ \E m \in DOMAIN topics_hierarchy : main_topic = Str(m)
               /\ \/ sub_topic = null
                  \/ \E m \in DOMAIN topics_hierarchy :
                         /\ main_topic = Str(m)
                         /\ \E x \in topics_hierarchy[m] : sub_topic = Str(x)
               /\ classification \in {Str("general"), Str("irrelevant")}
                      => main_topic = null /\ sub_topic = null

\* The key _select_system_prompt has for each category.
PromptOfCategory ==
    [c \in Categories |->
         CASE c = "practical" -> "practical_learning_prompt"
           [] c = "theoretical" -> "theoretical_learning_prompt"
           [] c = "general" -> "general_chitchat_prompt"
           [] c = "irrelevant" -> "irrelevant_response_prompt"]

\* C21: _select_system_prompt maps the result of classify to one prompt: each
\* of the four categories to its own prompt, and the empty result (invalid or
\* failed classification) to the general prompt; the default system prompt is
\* selected for no result of classify. ChatManager reads the prompt of the
\* same key.
C21_PromptOfClassification ==
    last.op = "select_system_prompt" =>
        LET c == DictGet(last.classification_result, Chars("classification"),
                         JsonVal("null", "null"))
        IN  /\ last.classification_result # EmptyResult
                   => \E k \in Categories : c = Str(k) /\ last.ret = PromptOfCategory[k]
            /\ last.classification_result = EmptyResult
                   => last.ret = "general_chitchat_prompt"
            /\ last.ret # "default_system_prompt"
            /\ last.cm = [exc |-> "none", ret |-> last.ret]

\* C21 as stated: the default system prompt is selected for the empty result.
C21_DefaultForEmptyResult ==
    (last.op = "select_system_prompt" /\ last.classification_result = EmptyResult)
        => last.ret = "default_system_prompt"

\* A prompt was selected for the empty result.
C21_Witness ==
    /\ last.op = "select_system_prompt"
    /\ last.classification_result = EmptyResult
    /\ last.ret = "general_chitchat_prompt"

\* C22: in every state of the application the active session of the chat
\* service is set and has its record, and no message is rejected for lack of
\* a session; a ChatService on the same store with no session started rejects
\* call_model and clear_current_session_memory and leaves the store as it is.
C22_ActiveSessionSet ==
    /\ chat_service.session_id # None
    /\ \E s \in db.sessions : s.id = chat_service.session_id
    /\ last.op = "process_command" => last.exc # "NoActiveSession"
    /\ \A prompt \in Messages, reply \in AppReplies, generated \in Generated,
          fail \in SUBSET {"get_memory", "add_message"} :
           LET r == call_model(db, NoChatService, prompt, reply, generated, fail)
           IN  r.exc = "NoActiveSession" /\ r.db = db /\ r.calls = <<>> /\ r.ret = ""
    /\ \A fail \in SUBSET {"clear_memory"} :
           LET r == clear_current_session_memory(db, NoChatService, fail)
           IN  r.exc = "NoActiveSession" /\ r.db = db /\ r.calls = <<>>

\* /new failed on the store with turns stored, and the active session is still
\* the one there was.
C22_Witness ==
    /\ last.op = "process_command"
    /\ last.handler = "/new"
    /\ last.raised # {}
    /\ chat_service.session_id = last.active
    /\ db.memory # {}

\* C13 with the exit the loop has besides /quit, the end of input and an
\* interrupt: process_command returns False for /quit and True for every
\* other line, whatever its handling raised, and the loop goes on with that
\* value; the loop is left only after /quit, the end of input, an interrupt or
\* an exception of reading the line, and a failure of handling never leaves it.
C13_HandlingFailureKeepsLoop ==
    /\ last.op = "process_command" =>
           /\ last.ret = (last.handler # "/quit")
           /\ app.running = last.ret
           /\ app.pc = (IF last.ret THEN "loop" ELSE "done")
           /\ last.exc # "none" => app.running /\ app.pc = "loop"
    /\ app.pc = "done" =>
           \/ last.op = "process_command" /\ last.handler = "/quit"
           \/ last.op \in {"EOFError", "KeyboardInterrupt", "Exception"}
    /\ app.pc # "done" => app.running /\ app.pc = "loop"

\* C23: the process exits with 0 after a normal end of the loop and with 2
\* when the loop was ended by an unhandled error.
C23_ExitCodeTellsRuntimeError ==
    app.exit # <<>> => app.exit = <<IF last.op = "Exception" THEN 2 ELSE 0>>

\* C24: for a prompt that asks who the assistant is, call_model returns the
\* identity answer without raising, without calling a model, without storing
\* a turn and without adding fragments.
C24_IdentityAnswered ==
    (last.op = "call_model" /\ AsksIdentity(last.prompt))
        => /\ last.exc = "none"
           /\ last.ret # ""
           /\ last.calls = <<"identity">>
           /\ last.stored = {}
           /\ last.added = 0

\* Values _detect_language may return.
Languages == {"english", "urdu", "french", "other"}

\* C25: for a prompt that is no identity question, with the mode english or
\* urdu and the language _detect_language returns neither other nor the mode,
\* call_model returns the reminder of the mode and classifies, generates,
\* stores and adds nothing, and so it would in every state for every such
\* language, whatever the other models answer; with the mode auto, or the
\* language returned other (which it is when detection fails) or the mode,
\* call_model goes on
\* to the query type, returns no reminder, generates the response under the
\* system prompt with the reply instruction of the mode appended, and when
\* nothing raises returns that response and stores the turn.
C25_LanguageGate ==
    (last.op = "call_model" /\ ~AsksIdentity(last.prompt)) =>
        /\ (/\ state.language_mode \in {"english", "urdu"}
            /\ last.detected_lang \notin {"other", state.language_mode})
               => /\ last.exc = "none"
                  /\ last.ret = LanguageReminder(state.language_mode)
                  /\ last.calls = <<"detect_language">>
                  /\ last.stored = {}
                  /\ last.added = 0
        /\ \A detected_lang \in Languages \ {"other", state.language_mode},
              reply \in AppReplies, generated \in Generated,
              fail \in {{}, {"add_message"}} :
               state.language_mode \in {"english", "urdu"} =>
                   LET r == cm_call_model_detected(db, state, chat_manager,
                               detected_lang, "follow_up", reply, generated,
                               GateMetric, fail)
                   IN  /\ r.exc = "none"
                       /\ r.ret = LanguageReminder(state.language_mode)
                       /\ r.calls = <<"detect_language">>
                       /\ r.db = db
                       /\ r.chat_manager = chat_manager
        /\ (\/ state.language_mode = "auto"
            \/ last.detected_lang \in {"other", state.language_mode})
               => /\ Head(last.calls) = "get_query_type"
                  /\ last.ret \notin {LanguageReminder("english"),
                                      LanguageReminder("urdu")}
                  /\ "generate" \in {last.calls[i] : i \in DOMAIN last.calls} =>
                         /\ Len(last.system_prompt) = 2
                         /\ last.system_prompt[2] = LanguageSuffix(state.language_mode)
                  /\ last.exc = "none" =>
                         /\ last.ret = last.generated
                         /\ Len(last.system_prompt) = 2
                         /\ \E r \in last.stored : /\ r.user_input = last.prompt
                                                    /\ r.model_response = last.ret

\* In English mode a prompt the detection model would name as Urdu: detection
\* fails, the language returned is other, and the message is answered under
\* the system prompt with the English reply instruction and stored.
C25_Witness ==
    /\ last.op = "call_model"
    /\ ~AsksIdentity(last.prompt)
    /\ state.language_mode = "english"
    /\ last.detected = "urdu"
    /\ last.detected_lang = "other"
    /\ last.exc = "none"
    /\ last.ret = last.generated
    /\ last.system_prompt[2] = LanguageSuffix("english")
    /\ last.stored # {}

\* C26: call_model stores a turn or fails, never both: when it raises, the
\* turns of every session are as before the call, and a turn is stored only
\* with the response returned to the caller.
C26_TurnOnlyWithResponse ==
    last.op = "call_model"
        => /\ last.exc # "none" => last.stored = {}
           /\ \A r \in last.stored :
                  /\ last.exc = "none"
                  /\ r.user_input = last.prompt
                  /\ r.model_response = last.ret

\* The turns of a store that belong to a session, and those of the others.
TurnsIn(d, session_id) == {r \in d.memory : r.session_id = session_id}

TurnsNotIn(d, session_id) == {r \in d.memory : r.session_id # session_id}

\* C27: clear_memory(s) changes nothing but the turns of session s: the turns
\* of every other session and what get_memory returns for them, the session
\* records and the counters are as before, and nothing changes when s has no
\* turn, has no record, or the call fails.
C27_ClearMemoryFrame ==
    [][last'.op = "clear_memory" =>
           LET s == last'.session_id
           IN  /\ db'.sessions = db.sessions
               /\ db'.sessions_seq = db.sessions_seq
               /\ db'.memory_seq = db.memory_seq
               /\ db'.notes = db.notes
               /\ TurnsNotIn(db', s) = TurnsNotIn(db, s)
               /\ \A t \in SessionIds \ {s} :
                      get_memory(db', t, DefaultLimit) = get_memory(db, t, DefaultLimit)
               /\ TurnsIn(db, s) = {} => db' = db
               /\ last'.exc # "none" => db' = db]_vars

\* clear_memory removed the turns of one session while another kept its own.
C27_Witness ==
    /\ last.op = "clear_memory"
    /\ last.exc = "none"
    /\ last.removed >= 1
    /\ TurnsNotIn(db, last.session_id) # {}
    /\ TurnsIn(db, last.session_id) = {}

\* C28: delete_session(id) removes the record and the turns of the session
\* together or not at all: after a call that succeeded neither is left, after
\* a call that failed the store is as before, and the records and turns of
\* every other session are unchanged.
C28_DeleteSessionAtomic ==
    [][last'.op = "delete_session" =>
           LET s == last'.session_id
           IN  /\ {r \in db'.sessions : r.id # s} = {r \in db.sessions : r.id # s}
               /\ TurnsNotIn(db', s) = TurnsNotIn(db, s)
               /\ last'.exc = "none" =>
                      /\ \A r \in db'.sessions : r.id # s
                      /\ TurnsIn(db', s) = {}
               /\ last'.exc # "none" => db' = db
               /\ \/ /\ TurnsIn(db', s) = TurnsIn(db, s)
                     /\ {r \in db'.sessions : r.id = s} = {r \in db.sessions : r.id = s}
                  \/ /\ TurnsIn(db', s) = {}
                     /\ {r \in db'.sessions : r.id = s} = {}]_vars

\* delete_session removed a session that had a record and turns, while
\* another session kept its record and its turns.
C28_Witness ==
    /\ last.op = "delete_session"
    /\ last.exc = "none"
    /\ last.existing # {}
    /\ last.removed >= 1
    /\ db.sessions # {}
    /\ \E r \in db.memory : \E s \in db.sessions : s.id = r.session_id

====
